---- MODULE Spec2Model ----
(***************************************************************************)
(* A model of the drafter planner: the conversion of a final-draft text    *)
(* into a plan of keyboard actions (src/src/planner.rs), together with the *)
(* keystroke map (keyboard.rs), the word-navigation primitive              *)
(* (word_nav.rs), the compatibility profile (word_nav_profile.rs) and the  *)
(* plan simulator (sim.rs).                                                *)
(*                                                                         *)
(* A text is a sequence of characters; a character is a one-character      *)
(* string.  The four smart quotes are written "LSQUO" (U+2018), "RSQUO"    *)
(* (U+2019), "LDQUO" (U+201C) and "RDQUO" (U+201D); the grave accent      *)
(* (U+0060) is written "GRAVE".                                            *)
(***************************************************************************)
EXTENDS Integers, Sequences, FiniteSets, TLC

VARIABLES
  final_text,   \* the target text handed to the planner
  entry,        \* the entry point called
  cfg,          \* the PlannerConfig
  alternatives, \* alternatives_by_paragraph (one list per paragraph)
  rng_hi,       \* the random generator: ranged draws take their upper end
  pc,           \* position of the planner in generate_plan*
  phrase_spans, \* the char-sorted phrase spans
  builder,      \* ActionBuilder {actions, shift_down, ctrl_down}
  editor,       \* EditorState {buf, cursor}
  outstanding,  \* Vec<OutstandingError>
  i,            \* index of the walk into final_text (0-based)
  phrase_idx,   \* index of the next phrase span (0-based)
  last_char,    \* last character of the token just typed
  iter_i,       \* value of i at the start of the current iteration
  injected,     \* number of errors injected so far (bounds the draws)
  log,          \* history of the enqueued and corrected errors
  result,       \* what the entry point returned
  sim,          \* what simulate_typed_text returned for the plan
  error,        \* the character and place named by the error of the entry point
  call,         \* the arguments of the library call under examination
  ret           \* what that call has returned so far

vars == <<final_text, entry, cfg, alternatives, rng_hi, pc, phrase_spans,
          builder, editor, outstanding, i, phrase_idx, last_char, iter_i,
          injected, log, result, sim, error, call, ret>>

----------------------------------------------------------------------------
(* Sequences helpers.                                                      *)

Min(a, b) == IF a <= b THEN a ELSE b
Max(a, b) == IF a >= b THEN a ELSE b

\* s[from..to) with 0-based bounds, as a Rust slice.
Slice(s, from, to) == SubSeq(s, from + 1, to)

\* Vec::insert(idx, c) with a 0-based index.
InsertAt(s, idx, c) == Slice(s, 0, idx) \o <<c>> \o Slice(s, idx, Len(s))

\* Vec::remove(idx) with a 0-based index.
RemoveAt(s, idx) == Slice(s, 0, idx) \o Slice(s, idx + 1, Len(s))

\* The absent values: of a character or a message, of an index, of a
\* keystroke, of a word.
None == "None"
NoIndex == 0 - 1
NoStroke == [keycode |-> 0, shift |-> FALSE]
NoWord == <<None>>

----------------------------------------------------------------------------
(* keyboard.rs: the keystroke map.                                         *)

KEY_BACKSPACE == 14
KEY_LEFTCTRL == 29
KEY_LEFTSHIFT == 42
KEY_RIGHTSHIFT == 54
KEY_APOSTROPHE == 40
KEY_DELETE == 111
KEY_LEFT == 105
KEY_RIGHT == 106
KEY_UP == 103
KEY_DOWN == 108
KEY_HOME == 102
KEY_END == 107

LowerLetters ==
  <<"a", "b", "c", "d", "e", "f", "g", "h", "i", "j", "k", "l", "m",
    "n", "o", "p", "q", "r", "s", "t", "u", "v", "w", "x", "y", "z">>
UpperLetters ==
  <<"A", "B", "C", "D", "E", "F", "G", "H", "I", "J", "K", "L", "M",
    "N", "O", "P", "Q", "R", "S", "T", "U", "V", "W", "X", "Y", "Z">>
Digits == <<"0", "1", "2", "3", "4", "5", "6", "7", "8", "9">>

Range(s) == {s[k] : k \in DOMAIN s}

is_ascii_uppercase(c) == c \in Range(UpperLetters)
is_ascii_lowercase(c) == c \in Range(LowerLetters)
is_ascii_alphanumeric(c) ==
  c \in Range(LowerLetters) \cup Range(UpperLetters) \cup Range(Digits)
\* U+0020, U+0009, U+000A, U+000C, U+000D; of these only the first three
\* have a name here.
is_ascii_whitespace(c) == c \in {" ", "\t", "\n", "FF", "\r"}

IndexIn(s, c) == CHOOSE k \in DOMAIN s : s[k] = c
to_ascii_lowercase(c) ==
  IF is_ascii_uppercase(c) THEN LowerLetters[IndexIn(UpperLetters, c)] ELSE c
to_ascii_uppercase(c) ==
  IF is_ascii_lowercase(c) THEN UpperLetters[IndexIn(LowerLetters, c)] ELSE c

\* char_to_keystroke's table: <<character, keycode, shift>>.
KeyTable ==
  << <<"a", 30, FALSE>>, <<"b", 48, FALSE>>, <<"c", 46, FALSE>>, <<"d", 32, FALSE>>,
     <<"e", 18, FALSE>>, <<"f", 33, FALSE>>, <<"g", 34, FALSE>>, <<"h", 35, FALSE>>,
     <<"i", 23, FALSE>>, <<"j", 36, FALSE>>, <<"k", 37, FALSE>>, <<"l", 38, FALSE>>,
     <<"m", 50, FALSE>>, <<"n", 49, FALSE>>, <<"o", 24, FALSE>>, <<"p", 25, FALSE>>,
     <<"q", 16, FALSE>>, <<"r", 19, FALSE>>, <<"s", 31, FALSE>>, <<"t", 20, FALSE>>,
     <<"u", 22, FALSE>>, <<"v", 47, FALSE>>, <<"w", 17, FALSE>>, <<"x", 45, FALSE>>,
     <<"y", 21, FALSE>>, <<"z", 44, FALSE>>, <<"A", 30, TRUE>>, <<"B", 48, TRUE>>,
     <<"C", 46, TRUE>>, <<"D", 32, TRUE>>, <<"E", 18, TRUE>>, <<"F", 33, TRUE>>,
     <<"G", 34, TRUE>>, <<"H", 35, TRUE>>, <<"I", 23, TRUE>>, <<"J", 36, TRUE>>,
     <<"K", 37, TRUE>>, <<"L", 38, TRUE>>, <<"M", 50, TRUE>>, <<"N", 49, TRUE>>,
     <<"O", 24, TRUE>>, <<"P", 25, TRUE>>, <<"Q", 16, TRUE>>, <<"R", 19, TRUE>>,
     <<"S", 31, TRUE>>, <<"T", 20, TRUE>>, <<"U", 22, TRUE>>, <<"V", 47, TRUE>>,
     <<"W", 17, TRUE>>, <<"X", 45, TRUE>>, <<"Y", 21, TRUE>>, <<"Z", 44, TRUE>>,
     <<"1", 2, FALSE>>, <<"2", 3, FALSE>>, <<"3", 4, FALSE>>, <<"4", 5, FALSE>>,
     <<"5", 6, FALSE>>, <<"6", 7, FALSE>>, <<"7", 8, FALSE>>, <<"8", 9, FALSE>>,
     <<"9", 10, FALSE>>, <<"0", 11, FALSE>>, <<"!", 2, TRUE>>, <<"@", 3, TRUE>>,
     <<"#", 4, TRUE>>, <<"$", 5, TRUE>>, <<"%", 6, TRUE>>, <<"^", 7, TRUE>>,
     <<"&", 8, TRUE>>, <<"*", 9, TRUE>>, <<"(", 10, TRUE>>, <<")", 11, TRUE>>,
     <<"-", 12, FALSE>>, <<"_", 12, TRUE>>, <<"=", 13, FALSE>>, <<"+", 13, TRUE>>,
     <<"[", 26, FALSE>>, <<"{", 26, TRUE>>, <<"]", 27, FALSE>>, <<"}", 27, TRUE>>,
     <<"\\", 43, FALSE>>, <<"|", 43, TRUE>>, <<";", 39, FALSE>>, <<":", 39, TRUE>>,
     <<"'", 40, FALSE>>, <<"\"", 40, TRUE>>, <<"GRAVE", 41, FALSE>>, <<"~", 41, TRUE>>,
     <<",", 51, FALSE>>, <<"<", 51, TRUE>>, <<".", 52, FALSE>>, <<">", 52, TRUE>>,
     <<"/", 53, FALSE>>, <<"?", 53, TRUE>>, <<" ", 57, FALSE>>, <<"\n", 28, FALSE>> >>

KeyIndex ==
  [c \in {KeyTable[k][1] : k \in DOMAIN KeyTable} |->
     CHOOSE k \in DOMAIN KeyTable : KeyTable[k][1] = c]

\* U+0021..U+007E: the characters of char_to_keystroke's table but the
\* space and the newline.
is_ascii_graphic(c) == c \in DOMAIN KeyIndex \ {" ", "\n"}

char_to_keystroke(c) ==
  IF c \in DOMAIN KeyIndex
    THEN [keycode |-> KeyTable[KeyIndex[c]][2], shift |-> KeyTable[KeyIndex[c]][3]]
    ELSE NoStroke

typed_char_for_output_char(c) ==
  CASE c = "\n" -> "\n"
    [] c \in {"\t", "\r"} -> None
    [] c \in {"RSQUO", "LSQUO"} -> "'"
    [] c \in {"RDQUO", "LDQUO"} -> "\""
    [] is_ascii_graphic(c) \/ c = " " -> c
    [] OTHER -> None

keystroke_for_output_char(c) ==
  IF typed_char_for_output_char(c) = None
    THEN NoStroke
    ELSE char_to_keystroke(typed_char_for_output_char(c))

is_supported_final_text(text) ==
  \A k \in DOMAIN text : keystroke_for_output_char(text[k]) /= NoStroke

\* The 0-based index of the first unsupported character, or NoIndex.
find_first_unsupported_char(text) ==
  LET bad == {k \in DOMAIN text : keystroke_for_output_char(text[k]) = NoStroke}
  IN  IF bad = {} THEN NoIndex
      ELSE (CHOOSE k \in bad : \A m \in bad : k <= m) - 1

\* qwerty_adjacent_char's table: <<key, neighbours>>.
NeighborTable ==
  << <<"a", <<"q", "w", "s", "z", "x">>>>,
     <<"b", <<"v", "g", "h", "n">>>>,
     <<"c", <<"x", "d", "f", "v">>>>,
     <<"d", <<"s", "e", "r", "f", "c", "x">>>>,
     <<"e", <<"w", "s", "d", "r">>>>,
     <<"f", <<"d", "r", "t", "g", "v", "c">>>>,
     <<"g", <<"f", "t", "y", "h", "b", "v">>>>,
     <<"h", <<"g", "y", "u", "j", "n", "b">>>>,
     <<"i", <<"u", "j", "k", "o">>>>,
     <<"j", <<"h", "u", "i", "k", "m", "n">>>>,
     <<"k", <<"j", "i", "o", "l", ",", "m">>>>,
     <<"l", <<"k", "o", "p", ";", ".">>>>,
     <<"m", <<"n", "j", "k", ",">>>>,
     <<"n", <<"b", "h", "j", "m">>>>,
     <<"o", <<"i", "k", "l", "p">>>>,
     <<"p", <<"o", "l", "[">>>>,
     <<"q", <<"w", "a">>>>,
     <<"r", <<"e", "d", "f", "t">>>>,
     <<"s", <<"a", "w", "e", "d", "x", "z">>>>,
     <<"t", <<"r", "f", "g", "y">>>>,
     <<"u", <<"y", "h", "j", "i">>>>,
     <<"v", <<"c", "f", "g", "b">>>>,
     <<"w", <<"q", "a", "s", "e">>>>,
     <<"x", <<"z", "s", "d", "c">>>>,
     <<"y", <<"t", "g", "h", "u">>>>,
     <<"z", <<"a", "s", "x">>>>,
     <<"1", <<"2", "q">>>>,
     <<"2", <<"1", "3", "q", "w">>>>,
     <<"3", <<"2", "4", "w", "e">>>>,
     <<"4", <<"3", "5", "e", "r">>>>,
     <<"5", <<"4", "6", "r", "t">>>>,
     <<"6", <<"5", "7", "t", "y">>>>,
     <<"7", <<"6", "8", "y", "u">>>>,
     <<"8", <<"7", "9", "u", "i">>>>,
     <<"9", <<"8", "0", "i", "o">>>>,
     <<"0", <<"9", "o", "p">>>> >>

NeighborIndex ==
  [c \in {NeighborTable[k][1] : k \in DOMAIN NeighborTable} |->
     CHOOSE k \in DOMAIN NeighborTable : NeighborTable[k][1] = c]

\* The neighbours of c's key, in c's case; <<>> when c has none.
qwerty_neighbors(c) ==
  LET base == IF is_ascii_uppercase(c) THEN to_ascii_lowercase(c) ELSE c
  IN  IF base \in DOMAIN NeighborIndex
        THEN NeighborTable[NeighborIndex[base]][2]
        ELSE <<>>

\* qwerty_adjacent_char with the drawn index n (0-based) into the neighbours.
qwerty_adjacent_char(c, n) ==
  IF qwerty_neighbors(c) = <<>> THEN None
  ELSE IF is_ascii_uppercase(c)
    THEN to_ascii_uppercase(qwerty_neighbors(c)[n + 1])
    ELSE qwerty_neighbors(c)[n + 1]

----------------------------------------------------------------------------
(* word_nav.rs: the word-navigation primitive.  The word predicate is      *)
(* given by name: "planner" (planner.rs) or "sim" (sim.rs).                *)

planner_is_word_char(c) == is_ascii_alphanumeric(c) \/ c = "'" \/ c = "RSQUO"

sim_is_word_char(c) == is_ascii_alphanumeric(c) \/ c = "'"

\* The closures handed to ctrl_left and ctrl_right: those of the planner and
\* of the simulator, and the two constant ones.
is_word_char_of(pred, c) ==
  CASE pred = "planner" -> planner_is_word_char(c)
    [] pred = "sim" -> sim_is_word_char(c)
    [] pred = "always" -> TRUE
    [] OTHER -> FALSE

classify_char(pred, c) ==
  IF is_ascii_whitespace(c) THEN "Whitespace"
  ELSE IF is_word_char_of(pred, c) THEN "Word"
  ELSE "Punctuation"

\* The loop that stops one character short of the start of the run.
RECURSIVE SkipLeftKeepingOne(_, _, _, _)
SkipLeftKeepingOne(buf, idx, pred, class) ==
  IF idx > 1 /\ classify_char(pred, buf[idx]) = class
       /\ classify_char(pred, buf[idx - 1]) = class
    THEN SkipLeftKeepingOne(buf, idx - 1, pred, class)
    ELSE idx

\* while idx > 0 && classify(buf[idx - 1]) == class { idx -= 1 }
RECURSIVE SkipLeft(_, _, _, _)
SkipLeft(buf, idx, pred, class) ==
  IF idx > 0 /\ classify_char(pred, buf[idx]) = class
    THEN SkipLeft(buf, idx - 1, pred, class)
    ELSE idx

\* while idx < len && classify(buf[idx]) == class { idx += 1 }
RECURSIVE SkipRight(_, _, _, _)
SkipRight(buf, idx, pred, class) ==
  IF idx < Len(buf) /\ classify_char(pred, buf[idx + 1]) = class
    THEN SkipRight(buf, idx + 1, pred, class)
    ELSE idx

\* ctrl_left without the skip over the whitespace run.
ctrl_left_without_whitespace_skip(buf, cursor, pred) ==
  LET idx0 == Min(cursor, Len(buf))
  IN  IF idx0 = 0 THEN 0
      ELSE SkipLeft(buf, idx0, pred, classify_char(pred, buf[idx0]))

ctrl_left(buf, cursor, pred) ==
  LET idx0 == Min(cursor, Len(buf))
      idx1 == SkipLeft(buf, idx0, pred, "Whitespace")
  IN  IF idx0 = 0 THEN 0
      ELSE IF idx1 = 0 THEN 0
      ELSE SkipLeft(buf, idx1, pred, classify_char(pred, buf[idx1]))

\* ctrl_right that goes on over the run after the whitespace.
ctrl_right_through_next_run(buf, cursor, pred) ==
  LET idx0 == Min(cursor, Len(buf))
      idx1 == SkipRight(buf, idx0, pred, "Whitespace")
  IN  IF idx0 >= Len(buf) THEN Len(buf)
      ELSE IF idx1 >= Len(buf) THEN Len(buf)
      ELSE SkipRight(buf, idx1, pred, classify_char(pred, buf[idx1 + 1]))

ctrl_right(buf, cursor, pred) ==
  LET idx0 == Min(cursor, Len(buf))
      started_in_whitespace ==
        idx0 < Len(buf) /\ classify_char(pred, buf[idx0 + 1]) = "Whitespace"
      idx1 == SkipRight(buf, idx0, pred, "Whitespace")
  IN  IF idx0 >= Len(buf) THEN Len(buf)
      ELSE IF idx1 >= Len(buf) THEN Len(buf)
      ELSE IF started_in_whitespace THEN idx1
      ELSE SkipRight(buf, idx1, pred, classify_char(pred, buf[idx1 + 1]))

----------------------------------------------------------------------------
(* word_nav_profile.rs: the compatibility profile.                         *)

\* compatible_ctrl_span_is_safe that lets the hyphen through.
compatible_ctrl_span_allows_hyphen(span) ==
  \A k \in DOMAIN span :
    is_ascii_alphanumeric(span[k]) \/ span[k] = " " \/ span[k] = "-"

compatible_ctrl_span_is_safe(span) ==
  \A k \in DOMAIN span : is_ascii_alphanumeric(span[k]) \/ span[k] = " "

\* compatible_ctrl_jump_is_safe without the checks of the two neighbours.
compatible_ctrl_jump_skips_neighbours(buf, from, to) ==
  LET len == Len(buf)
      f == Min(from, len)
      t == Min(to, len)
  IN  f = t \/ compatible_ctrl_span_is_safe(Slice(buf, Min(f, t), Max(f, t)))

compatible_ctrl_jump_is_safe(buf, from, to) ==
  LET len == Len(buf)
      f == Min(from, len)
      t == Min(to, len)
      start == Min(f, t)
      end == Max(f, t)
  IN  IF f = t THEN TRUE
      ELSE IF ~compatible_ctrl_span_is_safe(Slice(buf, start, end)) THEN FALSE
      ELSE IF start > 0 /\ ~compatible_ctrl_span_is_safe(Slice(buf, start - 1, start))
        THEN FALSE
      ELSE IF end < len /\ ~compatible_ctrl_span_is_safe(Slice(buf, end, end + 1))
        THEN FALSE
      ELSE TRUE

----------------------------------------------------------------------------
(* planner.rs: EditorState, a record [buf, cursor] with a 0-based cursor.  *)

EditorDefault == [buf |-> <<>>, cursor |-> 0]

insert_char(e, c) ==
  [buf |-> InsertAt(e.buf, e.cursor, c), cursor |-> e.cursor + 1]

\* EditorState::backspace moving the cursor without removing the character.
editor_backspace_keeps_char(e) ==
  IF e.cursor = 0 THEN e ELSE [e EXCEPT !.cursor = @ - 1]

editor_backspace(e) ==
  IF e.cursor = 0 THEN e
  ELSE [buf |-> RemoveAt(e.buf, e.cursor - 1), cursor |-> e.cursor - 1]

move_left(e) == IF e.cursor > 0 THEN [e EXCEPT !.cursor = @ - 1] ELSE e

move_right(e) == IF e.cursor < Len(e.buf) THEN [e EXCEPT !.cursor = @ + 1] ELSE e

move_word_left(e) == [e EXCEPT !.cursor = ctrl_left(e.buf, e.cursor, "planner")]

move_word_right(e) == [e EXCEPT !.cursor = ctrl_right(e.buf, e.cursor, "planner")]

----------------------------------------------------------------------------
(* planner.rs: ActionBuilder, a record [actions, shift_down, ctrl_down].   *)
(* The masks are those of the us/pc105 keymap (keymap.rs).  A ranged       *)
(* random draw lo..=hi is its upper end when the generator r is "high"     *)
(* (TRUE) and its lower end otherwise.                                     *)

shift_mask == 1
ctrl_mask == 4

\* gen_range on a generator that a plan already returned has left in another
\* state, as a generator shared between runs would be.
gen_range_of_shared_generator(lo, hi, r) ==
  IF ret.fn = None THEN (IF r THEN hi ELSE lo) ELSE (IF r THEN lo ELSE hi)

gen_range(lo, hi, r) == IF r THEN hi ELSE lo

WaitAction(ms) == [type |-> "wait", ms |-> ms]
KeyAction(keycode, state) == [type |-> "key", keycode |-> keycode, state |-> state]
ModifiersAction(depressed) ==
  [type |-> "modifiers", mods_depressed |-> depressed, mods_latched |-> 0,
   mods_locked |-> 0, group |-> 0]

BuilderNew == [actions |-> <<>>, shift_down |-> FALSE, ctrl_down |-> FALSE]

wait(b, ms) ==
  IF ms = 0 THEN b ELSE [b EXCEPT !.actions = Append(@, WaitAction(ms))]

key(b, keycode, state) == [b EXCEPT !.actions = Append(@, KeyAction(keycode, state))]

set_modifiers(b) ==
  LET depressed == (IF b.shift_down THEN shift_mask ELSE 0)
                   + (IF b.ctrl_down THEN ctrl_mask ELSE 0)
  IN  [b EXCEPT !.actions = Append(@, ModifiersAction(depressed))]

\* set_shift without the Modifiers snapshot after the key event.
set_shift_without_snapshot(b, down, r) ==
  IF b.shift_down = down THEN b
  ELSE LET b1 == key(b, KEY_LEFTSHIFT, IF down THEN "pressed" ELSE "released")
           b2 == wait(b1, gen_range(5, 20, r))
           b3 == [b2 EXCEPT !.shift_down = down]
       IN  wait(b3, gen_range(0, 12, r))

\* set_shift without the early return on a tracked state equal to down.
set_shift_unconditionally(b, down, r) ==
  LET b1 == key(b, KEY_LEFTSHIFT, IF down THEN "pressed" ELSE "released")
      b2 == wait(b1, gen_range(5, 20, r))
      b3 == [b2 EXCEPT !.shift_down = down]
      b4 == set_modifiers(b3)
  IN  wait(b4, gen_range(0, 12, r))

set_shift(b, down, r) ==
  IF b.shift_down = down THEN b
  ELSE LET b1 == key(b, KEY_LEFTSHIFT, IF down THEN "pressed" ELSE "released")
           b2 == wait(b1, gen_range(5, 20, r))
           b3 == [b2 EXCEPT !.shift_down = down]
           b4 == set_modifiers(b3)
       IN  wait(b4, gen_range(0, 12, r))

\* set_ctrl without the Modifiers snapshot after the key event.
set_ctrl_without_snapshot(b, down, r) ==
  IF b.ctrl_down = down THEN b
  ELSE LET b1 == key(b, KEY_LEFTCTRL, IF down THEN "pressed" ELSE "released")
           b2 == wait(b1, gen_range(5, 20, r))
           b3 == [b2 EXCEPT !.ctrl_down = down]
       IN  wait(b3, gen_range(0, 12, r))

set_ctrl(b, down, r) ==
  IF b.ctrl_down = down THEN b
  ELSE LET b1 == key(b, KEY_LEFTCTRL, IF down THEN "pressed" ELSE "released")
           b2 == wait(b1, gen_range(5, 20, r))
           b3 == [b2 EXCEPT !.ctrl_down = down]
           b4 == set_modifiers(b3)
       IN  wait(b4, gen_range(0, 12, r))

press_key(b, keycode, r) ==
  key(wait(key(b, keycode, "pressed"), gen_range(18, 70, r)), keycode, "released")

type_char(b, stroke, r) ==
  press_key(set_shift(set_ctrl(b, FALSE, r), stroke.shift, r), stroke.keycode, r)

nav_left(b, r) == press_key(set_shift(set_ctrl(b, FALSE, r), FALSE, r), KEY_LEFT, r)

nav_right(b, r) == press_key(set_shift(set_ctrl(b, FALSE, r), FALSE, r), KEY_RIGHT, r)

nav_word_left(b, r) == press_key(set_shift(set_ctrl(b, TRUE, r), FALSE, r), KEY_LEFT, r)

nav_word_right(b, r) == press_key(set_shift(set_ctrl(b, TRUE, r), FALSE, r), KEY_RIGHT, r)

\* backspace without the release of Ctrl.
builder_backspace_keeping_ctrl(b, r) ==
  press_key(set_shift(b, FALSE, r), KEY_BACKSPACE, r)

builder_backspace(b, r) ==
  press_key(set_shift(set_ctrl(b, FALSE, r), FALSE, r), KEY_BACKSPACE, r)

----------------------------------------------------------------------------
(* planner.rs: wrong forms of a word.  A word is a sequence of characters; *)
(* the random draws are parameters.                                        *)

\* The UTF-8 length of a character and of a string.
Utf8Len(c) ==
  IF c \in {"RSQUO", "LSQUO", "RDQUO", "LDQUO"} THEN 3
  ELSE IF c = "EACUTE" THEN 2
  ELSE 1

RECURSIVE ByteLen(_)
ByteLen(s) == IF s = <<>> THEN 0 ELSE Utf8Len(Head(s)) + ByteLen(Tail(s))

MapSeq(s, Op(_)) == [k \in DOMAIN s |-> Op(s[k])]

lowercase(s) == MapSeq(s, to_ascii_lowercase)
uppercase(s) == MapSeq(s, to_ascii_uppercase)

apply_case_style(template, lower) ==
  LET first_is_upper == template /= <<>> /\ is_ascii_uppercase(template[1])
      rest_are_lower ==
        \A k \in DOMAIN template : k > 1 => ~is_ascii_uppercase(template[k])
  IN  IF \A k \in DOMAIN template : is_ascii_uppercase(template[k])
        THEN uppercase(lower)
      ELSE IF first_is_upper /\ rest_are_lower
        THEN IF lower /= <<>> /\ Utf8Len(lower[1]) = 1
               THEN <<to_ascii_uppercase(lower[1])>> \o Tail(lower)
               ELSE lower
      ELSE lower

\* synonym_options' table: <<word, options>>.
SynonymTable ==
  << <<<<"i", "m", "p", "o", "r", "t", "a", "n", "t">>,
        <<<<"c", "r", "u", "c", "i", "a", "l">>,
          <<"k", "e", "y">>,
          <<"v", "i", "t", "a", "l">>>>>>,
     <<<<"h", "e", "l", "p">>,
        <<<<"a", "s", "s", "i", "s", "t">>,
          <<"a", "i", "d">>,
          <<"s", "u", "p", "p", "o", "r", "t">>>>>>,
     <<<<"u", "s", "e">>,
        <<<<"u", "t", "i", "l", "i", "z", "e">>,
          <<"e", "m", "p", "l", "o", "y">>>>>>,
     <<<<"s", "h", "o", "w">>,
        <<<<"d", "e", "m", "o", "n", "s", "t", "r", "a", "t", "e">>,
          <<"d", "i", "s", "p", "l", "a", "y">>>>>>,
     <<<<"m", "a", "k", "e">>,
        <<<<"c", "r", "e", "a", "t", "e">>,
          <<"b", "u", "i", "l", "d">>>>>>,
     <<<<"s", "t", "a", "r", "t">>,
        <<<<"b", "e", "g", "i", "n">>,
          <<"k", "i", "c", "k", "o", "f", "f">>>>>>,
     <<<<"e", "n", "d">>,
        <<<<"f", "i", "n", "i", "s", "h">>,
          <<"w", "r", "a", "p">>>>>>,
     <<<<"i", "d", "e", "a">>,
        <<<<"c", "o", "n", "c", "e", "p", "t">>,
          <<"n", "o", "t", "i", "o", "n">>>>>>,
     <<<<"q", "u", "i", "c", "k">>,
        <<<<"f", "a", "s", "t">>,
          <<"r", "a", "p", "i", "d">>>>>>,
     <<<<"s", "l", "o", "w">>,
        <<<<"s", "l", "u", "g", "g", "i", "s", "h">>,
          <<"g", "r", "a", "d", "u", "a", "l">>>>>> >>

synonym_options(word_lower) ==
  LET hits == {k \in DOMAIN SynonymTable : SynonymTable[k][1] = word_lower}
  IN  IF hits = {} THEN <<>> ELSE SynonymTable[CHOOSE k \in hits : TRUE][2]

ends_with(s, suffix) ==
  Len(s) >= Len(suffix) /\ Slice(s, Len(s) - Len(suffix), Len(s)) = suffix

\* word_variant with the drawn option index n (0-based).
word_variant(word, n) ==
  LET word_lower == lowercase(word)
      options == synonym_options(word_lower)
  IN  IF options /= <<>> /\ options[n + 1] /= word_lower
        THEN apply_case_style(word, options[n + 1])
      ELSE IF ends_with(word_lower, <<"e", "d">>) /\ ByteLen(word_lower) >= 4
        THEN apply_case_style(
               word, Slice(word_lower, 0, Len(word_lower) - 2) \o <<"i", "n", "g">>)
      ELSE IF ends_with(word_lower, <<"i", "n", "g">>) /\ ByteLen(word_lower) >= 5
        THEN apply_case_style(
               word, Slice(word_lower, 0, Len(word_lower) - 3) \o <<"e", "d">>)
      ELSE NoWord

\* Vec::swap(idx, idx + 1) with a 0-based index.
SwapAdjacent(s, idx) ==
  [k \in DOMAIN s |->
     IF k = idx + 1 THEN s[idx + 2] ELSE IF k = idx + 2 THEN s[idx + 1] ELSE s[k]]

\* word_typo with its draws: swap (the 0.25 coin), swap_idx, idx and the
\* neighbour index n.
word_typo(word, swap, swap_idx, idx, n) ==
  LET swapped == SwapAdjacent(word, swap_idx)
      adj == qwerty_adjacent_char(word[idx + 1], n)
      out == [word EXCEPT ![idx + 1] = adj]
  IN  IF Len(word) < 2 THEN NoWord
      ELSE IF Len(word) >= 4 /\ swap /\ swapped /= word THEN swapped
      ELSE IF adj /= None /\ out /= word THEN out
      ELSE NoWord

\* The indices 0..n-1 a draw below n may take, within the bound MaxDraw.
MaxDraw == 0
Draws(n) == {k \in 0..(n - 1) : k <= MaxDraw}

\* The results word_variant can return, over the draws.
VariantResults(word) ==
  LET options == synonym_options(lowercase(word))
  IN  IF options = <<>> THEN {word_variant(word, 0)}
      ELSE {word_variant(word, n) : n \in Draws(Len(options))}

\* The results word_typo can return, over the draws.
NeighborDraws(c) ==
  IF qwerty_neighbors(c) = <<>> THEN {0} ELSE Draws(Len(qwerty_neighbors(c)))

TypoResults(word) ==
  IF Len(word) < 2 THEN {NoWord}
  ELSE UNION {{word_typo(word, swap, swap_idx, idx, n) :
                 n \in NeighborDraws(word[idx + 1])} :
              swap \in BOOLEAN, swap_idx \in Draws(Len(word) - 1),
              idx \in Draws(Len(word))}

\* if want_variant { variant.or_else(typo) } else { typo.or_else(variant) }
WrongWords(word, want_variant) ==
  LET first == IF want_variant THEN VariantResults(word) ELSE TypoResults(word)
      second == IF want_variant THEN TypoResults(word) ELSE VariantResults(word)
  IN  (first \ {NoWord}) \cup (IF NoWord \in first THEN second ELSE {})

----------------------------------------------------------------------------
(* planner.rs: typing and correcting.  These operators work on a record    *)
(* st = [b, e, ok]: the builder, the editor, and whether no step failed.   *)

inter_char_delay_ms(r) == gen_range(25, 900, r)

punctuation_pause_ms(c, r) ==
  CASE c \in {",", ";", ":"} -> gen_range(60, 220, r)
    [] c \in {".", "!", "?"} -> gen_range(120, 520, r)
    [] c = "\n" -> gen_range(200, 900, r)
    [] OTHER -> 0

\* The coins gen_bool(0.12) and gen_bool(0.10) fall with the generator.
maybe_think_pause_ms(prev, r) ==
  CASE prev \in {".", "!", "?"} -> IF r THEN gen_range(700, 2400, r) ELSE 0
    [] prev = "\n" -> IF r THEN gen_range(600, 2000, r) ELSE 0
    [] OTHER -> 0

sentence_or_paragraph_boundary(c) == c \in {".", "!", "?", "\n"}

RECURSIVE type_string(_, _, _)
type_string(st, s, r) ==
  IF s = <<>> \/ ~st.ok THEN st
  ELSE LET c == Head(s)
           stroke == keystroke_for_output_char(c)
           delay == inter_char_delay_ms(r) + punctuation_pause_ms(c, r)
                    + maybe_think_pause_ms(c, r)
       IN  IF stroke = NoStroke THEN [st EXCEPT !.ok = FALSE]
           ELSE type_string(
                  [st EXCEPT !.b = wait(type_char(st.b, stroke, r), delay),
                             !.e = insert_char(st.e, c)],
                  Tail(s), r)

\* for _ in 0..n { builder.backspace; editor.backspace; wait(15..=55) }
RECURSIVE backspace_n(_, _, _)
backspace_n(st, n, r) ==
  IF n = 0 THEN st
  ELSE backspace_n(
         [st EXCEPT !.b = wait(builder_backspace(st.b, r), gen_range(15, 55, r)),
                    !.e = editor_backspace(st.e)],
         n - 1, r)

replace_at_end(st, wrong, correct, r) ==
  type_string(
    backspace_n([st EXCEPT !.b = wait(st.b, gen_range(60, 260, r))], Len(wrong), r),
    correct, r)

\* Whether the step of a navigation from cursor towards target may be a
\* Ctrl+Arrow to ctrl_target.
\* jump_allowed without the bound on the remaining distance.
jump_allowed_at_any_distance(buf, cursor, ctrl_target, target, profile, leftward) ==
  LET ctrl_delta == IF leftward THEN Max(cursor - ctrl_target, 0)
                    ELSE Max(ctrl_target - cursor, 0)
      lo == Min(cursor, ctrl_target)
      hi == Max(cursor, ctrl_target)
      crosses_newline == \E k \in (lo + 1)..hi : buf[k] = "\n"
      within == IF leftward THEN ctrl_target >= target ELSE ctrl_target <= target
  IN  /\ within
      /\ ctrl_delta >= 4
      /\ IF profile = "Chrome" THEN ~crosses_newline
         ELSE compatible_ctrl_jump_is_safe(buf, cursor, ctrl_target)

jump_allowed(buf, cursor, ctrl_target, target, profile, leftward) ==
  LET ctrl_delta == IF leftward THEN Max(cursor - ctrl_target, 0)
                    ELSE Max(ctrl_target - cursor, 0)
      remaining == IF leftward THEN cursor - target ELSE target - cursor
      lo == Min(cursor, ctrl_target)
      hi == Max(cursor, ctrl_target)
      crosses_newline == \E k \in (lo + 1)..hi : buf[k] = "\n"
      within == IF leftward THEN ctrl_target >= target ELSE ctrl_target <= target
  IN  /\ within
      /\ ctrl_delta >= 4
      /\ remaining >= 12
      /\ IF profile = "Chrome" THEN ~crosses_newline
         ELSE compatible_ctrl_jump_is_safe(buf, cursor, ctrl_target)

\* The pause after a leftward step: gen_bool(0.03) falls with the generator.
left_step_wait(r) == IF r THEN gen_range(40, 180, r) ELSE gen_range(6, 22, r)

RECURSIVE navigate_left_loop(_, _, _, _)
navigate_left_loop(st, target, profile, r) ==
  IF ~(st.e.cursor > target) THEN st
  ELSE LET ctrl_target == ctrl_left(st.e.buf, st.e.cursor, "planner")
           stepped ==
             IF jump_allowed(st.e.buf, st.e.cursor, ctrl_target, target, profile, TRUE)
               THEN [st EXCEPT !.b = nav_word_left(st.b, r),
                               !.e = move_word_left(st.e)]
               ELSE [st EXCEPT !.b = nav_left(st.b, r), !.e = move_left(st.e)]
       IN  navigate_left_loop(
             [stepped EXCEPT !.b = wait(stepped.b, left_step_wait(r))],
             target, profile, r)

navigate_left_to(st, target, profile, r) ==
  LET t == Min(target, Len(st.e.buf))
      walked == navigate_left_loop(st, t, profile, r)
  IN  IF profile = "Chrome" THEN walked
      ELSE [walked EXCEPT !.b = set_ctrl(walked.b, FALSE, r)]

RECURSIVE navigate_right_loop(_, _, _, _)
navigate_right_loop(st, target, profile, r) ==
  IF ~(st.e.cursor < target) THEN st
  ELSE LET ctrl_target == ctrl_right(st.e.buf, st.e.cursor, "planner")
           stepped ==
             IF jump_allowed(st.e.buf, st.e.cursor, ctrl_target, target, profile, FALSE)
               THEN [st EXCEPT !.b = nav_word_right(st.b, r),
                               !.e = move_word_right(st.e)]
               ELSE [st EXCEPT !.b = nav_right(st.b, r), !.e = move_right(st.e)]
       IN  navigate_right_loop(
             [stepped EXCEPT !.b = wait(stepped.b, gen_range(6, 22, r))],
             target, profile, r)

navigate_right_to(st, target, profile, r) ==
  LET t == Min(target, Len(st.e.buf))
      walked == navigate_right_loop(st, t, profile, r)
  IN  [walked EXCEPT !.b = set_ctrl(walked.b, FALSE, r)]

\* fix_error_at_position without the navigation back to the end.
fix_error_at_position_without_return(st, err, profile, r) ==
  LET wrong_len == Len(err.wrong)
      target_end == err.start + wrong_len
      at_error == navigate_left_to(st, target_end, profile, r)
      paused == [at_error EXCEPT !.b = wait(at_error.b, gen_range(50, 220, r))]
      typed == type_string(backspace_n(paused, wrong_len, r), err.correct, r)
  IN  IF target_end > st.e.cursor THEN [st EXCEPT !.ok = FALSE]
      ELSE typed

fix_error_at_position(st, err, profile, r) ==
  LET wrong_len == Len(err.wrong)
      target_end == err.start + wrong_len
      at_error == navigate_left_to(st, target_end, profile, r)
      paused == [at_error EXCEPT !.b = wait(at_error.b, gen_range(50, 220, r))]
      typed == type_string(backspace_n(paused, wrong_len, r), err.correct, r)
  IN  IF target_end > st.e.cursor THEN [st EXCEPT !.ok = FALSE]
      ELSE IF ~typed.ok THEN typed
      ELSE navigate_right_to(typed, Len(typed.e.buf), profile, r)

----------------------------------------------------------------------------
(* llm.rs: validation of the phrase alternatives of one paragraph.         *)
(* Positions are character positions (0-based); the code's byte positions  *)
(* are in the same order.                                                  *)

is_supported_text(text) ==
  \A k \in DOMAIN text : typed_char_for_output_char(text[k]) /= None

IsWhite(c) == c \in {" ", "\t", "\n", "\r"}

\* s.trim() == s
is_trimmed(s) == s = <<>> \/ (~IsWhite(s[1]) /\ ~IsWhite(s[Len(s)]))

MatchesAt(text, pat, pos) ==
  pos + Len(pat) <= Len(text) /\ Slice(text, pos, pos + Len(pat)) = pat

\* str::find: the first position where pat occurs, or NoIndex.
find(text, pat) ==
  LET hits == {pos \in 0..Len(text) : MatchesAt(text, pat, pos)}
  IN  IF hits = {} THEN NoIndex ELSE CHOOSE pos \in hits : \A q \in hits : pos <= q

\* str::match_indices(pat).count(): the matches found scanning left to
\* right, each search resuming after the previous match.
RECURSIVE match_count(_, _, _)
match_count(text, pat, from) ==
  LET hits == {pos \in from..Len(text) : MatchesAt(text, pat, pos)}
      first == CHOOSE pos \in hits : \A q \in hits : pos <= q
  IN  IF hits = {} \/ from > Len(text) THEN 0
      ELSE 1 + match_count(text, pat, first + Max(Len(pat), 1))

\* ItemError without the comparison of the alternative with the original.
ItemErrorAllowingSame(paragraph, item) ==
  CASE item.original = <<>> -> "original must not be empty"
    [] ~is_trimmed(item.original) -> "original must not start or end with whitespace"
    [] item.alternative = <<>> -> "alternative must not be empty"
    [] ~is_trimmed(item.alternative) ->
         "alternative must not start or end with whitespace"
    [] ~is_supported_text(item.original) -> "original contains unsupported characters"
    [] ~is_supported_text(item.alternative) ->
         "alternative contains unsupported characters"
    [] match_count(paragraph, item.original, 0) /= 1 ->
         "original must occur exactly once in the paragraph"
    [] OTHER -> None

ItemError(paragraph, item) ==
  CASE item.original = <<>> -> "original must not be empty"
    [] ~is_trimmed(item.original) -> "original must not start or end with whitespace"
    [] item.alternative = <<>> -> "alternative must not be empty"
    [] ~is_trimmed(item.alternative) ->
         "alternative must not start or end with whitespace"
    [] item.original = item.alternative -> "original and alternative must differ"
    [] ~is_supported_text(item.original) -> "original contains unsupported characters"
    [] ~is_supported_text(item.alternative) ->
         "alternative contains unsupported characters"
    [] match_count(paragraph, item.original, 0) /= 1 ->
         "original must occur exactly once in the paragraph"
    [] OTHER -> None

\* The ranges (start, end) of the originals, sorted by start; two ranges
\* with the same start keep the order of the items (a stable sort).
SortedBy(items, Key(_)) ==
  LET n == Len(items)
      rank(k) == Cardinality({m \in 1..n :
                   Key(items[m]) < Key(items[k])
                   \/ (Key(items[m]) = Key(items[k]) /\ m < k)}) + 1
  IN  [p \in 1..n |-> items[CHOOSE k \in 1..n : rank(k) = p]]

RangeStart(rg) == rg[1]

\* validate_phrase_alternatives with the ranges left in the order of the items.
validate_phrase_alternatives_unsorted(paragraph, items) ==
  LET bad == {k \in DOMAIN items : ItemError(paragraph, items[k]) /= None}
      ranges == [k \in DOMAIN items |->
                   <<find(paragraph, items[k].original),
                     find(paragraph, items[k].original) + Len(items[k].original)>>]
  IN  IF ~is_supported_text(paragraph)
        THEN "paragraph contains unsupported characters"
      ELSE IF bad /= {}
        THEN ItemError(paragraph, items[CHOOSE k \in bad : \A m \in bad : k <= m])
      ELSE IF \E k \in 1..(Len(ranges) - 1) : ranges[k][2] > ranges[k + 1][1]
        THEN "original spans must be non-overlapping"
      ELSE None

validate_phrase_alternatives(paragraph, items) ==
  LET bad == {k \in DOMAIN items : ItemError(paragraph, items[k]) /= None}
      ranges == SortedBy(
        [k \in DOMAIN items |->
           <<find(paragraph, items[k].original),
             find(paragraph, items[k].original) + Len(items[k].original)>>],
        RangeStart)
  IN  IF ~is_supported_text(paragraph)
        THEN "paragraph contains unsupported characters"
      ELSE IF bad /= {}
        THEN ItemError(paragraph, items[CHOOSE k \in bad : \A m \in bad : k <= m])
      ELSE IF \E k \in 1..(Len(ranges) - 1) : ranges[k][2] > ranges[k + 1][1]
        THEN "original spans must be non-overlapping"
      ELSE None

----------------------------------------------------------------------------
(* planner.rs: paragraphs and phrase spans.                                *)

\* The index of the first position >= idx that holds no newline.
RECURSIVE SkipNewlines(_, _)
SkipNewlines(text, idx) ==
  IF idx < Len(text) /\ text[idx + 1] = "\n" THEN SkipNewlines(text, idx + 1) ELSE idx

\* The index of the first position >= idx where a blank line starts.
RECURSIVE ParagraphEnd(_, _)
ParagraphEnd(text, idx) ==
  IF idx >= Len(text) THEN idx
  ELSE IF text[idx + 1] = "\n" /\ idx + 1 < Len(text) /\ text[idx + 2] = "\n" THEN idx
  ELSE ParagraphEnd(text, idx + 1)

\* paragraph_byte_spans: the spans <<start, end>> of the paragraphs.
RECURSIVE paragraph_spans_from(_, _)
paragraph_spans_from(text, idx) ==
  LET start == SkipNewlines(text, idx)
      end == ParagraphEnd(text, start)
  IN  IF start >= Len(text) THEN <<>>
      ELSE <<(<<start, end>>)>> \o paragraph_spans_from(text, SkipNewlines(text, end))

paragraph_byte_spans(text) == paragraph_spans_from(text, 0)

SpanStart(span) == span.start

RECURSIVE Flatten(_)
Flatten(ss) == IF ss = <<>> THEN <<>> ELSE Head(ss) \o Flatten(Tail(ss))

\* phrase_spans_from_paragraph_alternatives: [ok, spans].
phrase_spans_from_paragraph_alternatives(text, alts) ==
  LET pars == paragraph_byte_spans(text)
      paragraph(k) == Slice(text, pars[k][1], pars[k][2])
      span_of(k, item) ==
        [start |-> pars[k][1] + find(paragraph(k), item.original),
         original |-> item.original,
         alternative |-> item.alternative,
         original_len_chars |-> Len(item.original)]
      spans == SortedBy(
        Flatten([k \in DOMAIN pars |->
                   [m \in DOMAIN alts[k] |-> span_of(k, alts[k][m])]]),
        SpanStart)
  IN  IF Len(alts) /= Len(pars) THEN [ok |-> FALSE, spans |-> <<>>]
      ELSE IF \E k \in DOMAIN pars :
                validate_phrase_alternatives(paragraph(k), alts[k]) /= None
        THEN [ok |-> FALSE, spans |-> <<>>]
      ELSE IF \E k \in DOMAIN spans :
                spans[k].start + spans[k].original_len_chars > Len(text)
        THEN [ok |-> FALSE, spans |-> <<>>]
      ELSE IF \E k \in 1..(Len(spans) - 1) :
                spans[k].start + spans[k].original_len_chars > spans[k + 1].start
        THEN [ok |-> FALSE, spans |-> <<>>]
      ELSE [ok |-> TRUE, spans |-> spans]

----------------------------------------------------------------------------
(* The inputs: texts, phrase alternatives, configurations, random draws.   *)

TextPlain ==       \* "It abcdefghijkl m"
  <<"I", "t", " ", "a", "b", "c", "d", "e", "f", "g", "h", "i", "j", "k", "l",
    " ", "m">>
TextQuoted ==      \* "it <U+2018>abcdefghijkl."
  <<"i", "t", " ", "LSQUO", "a", "b", "c", "d", "e", "f", "g", "h", "i", "j",
    "k", "l", ".">>
TextHelloWorld ==  \* "HelloWorld"
  <<"H", "e", "l", "l", "o", "W", "o", "r", "l", "d">>
TextTwoPhrases ==  \* "ab cd."
  <<"a", "b", " ", "c", "d", ".">>
TextLongWord ==    \* "xabcdefghijkl."
  <<"x", "a", "b", "c", "d", "e", "f", "g", "h", "i", "j", "k", "l", ".">>
TextVariants ==    \* "help used."
  <<"h", "e", "l", "p", " ", "u", "s", "e", "d", ".">>
TextTab ==         \* "a<TAB>b", which holds an unsupported character
  <<"a", "\t", "b">>

Alt(original, alternative) == [original |-> original, alternative |-> alternative]

\* A scenario: a target text and a list of phrase alternatives per paragraph.
Scenarios ==
  { [text |-> TextPlain, alts |-> <<(<<>>)>>],
    [text |-> TextQuoted, alts |-> <<(<<>>)>>],
    [text |-> TextVariants, alts |-> <<(<<>>)>>],
    [text |-> TextHelloWorld,
     alts |-> << <<Alt(<<"W", "o", "r", "l", "d">>, <<"z", "z", "z">>)>> >>],
    [text |-> TextTwoPhrases,
     alts |-> << <<Alt(<<"c", "d">>, <<"z", "w">>), Alt(<<"a", "b">>, <<"x", "y">>)>> >>],
    [text |-> TextLongWord,
     alts |-> << <<Alt(<<"x">>, <<"LSQUO">>)>> >>],
    [text |-> TextTab, alts |-> <<(<<>>)>>],
    [text |-> TextVariants,
     alts |-> << <<Alt(<<"h", "e", "l", "d">>, <<"k", "e", "p", "t">>)>> >>] }

Entries ==
  {"generate_plan", "generate_plan_no_revision",
   "generate_plan_with_phrase_alternatives"}

\* The largest max_outstanding_errors and the largest number of errors the
\* random draws inject in one run.
MaxCap == 2
MaxInjected == 1

\* An f64 of the configuration: a finite number, NaN or an infinity.
Num(v) == [kind |-> "num", v |-> v]
NaN == [kind |-> "nan", v |-> 0]
PosInf == [kind |-> "inf", v |-> 1]
NegInf == [kind |-> "inf", v |-> 0 - 1]

is_finite(x) == x.kind = "num"

\* x > y and x <= y on f64: every comparison with NaN is false.
f64_gt(x, y) ==
  /\ x.kind /= "nan"
  /\ y.kind /= "nan"
  /\ CASE x.kind = "num" /\ y.kind = "num" -> x.v > y.v
       [] x.kind = "inf" /\ y.kind = "num" -> x.v > 0
       [] x.kind = "num" /\ y.kind = "inf" -> y.v < 0
       [] OTHER -> x.v > y.v

f64_le(x, y) == x.kind /= "nan" /\ y.kind /= "nan" /\ ~f64_gt(x, y)

\* Probabilities are percentages; the defaults of PlannerConfig otherwise.
Configs ==
  [wpm_min : {Num(40)},
   wpm_max : {Num(60)},
   error_rate_per_word : {0, 50},
   word_variant_share : {35},
   immediate_fix_rate : {35},
   word_nav_profile : {"Chrome", "Compatible"},
   max_outstanding_errors : 0..MaxCap,
   stop_corrections_after_progress : {88},
   review_pause_ms_min : {99999},
   review_pause_ms_max : {99999},
   no_revision : BOOLEAN]

\* rng.gen_bool(p) for a percentage p.
GenBool(p) == IF p = 0 THEN {FALSE} ELSE IF p = 100 THEN {TRUE} ELSE BOOLEAN

\* (0.0..=1.0).contains(p) for a percentage p.
unit_range_contains(p) == 0 <= p /\ p <= 100

\* validate_config without the check of the review pause bounds.
validate_config_without_pause_check(c) ==
  IF ~is_finite(c.wpm_min) THEN "wpm_min must be finite"
  ELSE IF ~is_finite(c.wpm_max) THEN "wpm_max must be finite"
  ELSE IF ~(f64_gt(c.wpm_min, Num(0)) /\ f64_gt(c.wpm_max, Num(0)))
    THEN "wpm_min and wpm_max must be > 0"
  ELSE IF ~f64_le(c.wpm_min, c.wpm_max) THEN "wpm_min must be <= wpm_max"
  ELSE IF ~unit_range_contains(c.error_rate_per_word)
    THEN "error_rate_per_word must be between 0.0 and 1.0"
  ELSE IF ~unit_range_contains(c.word_variant_share)
    THEN "word_variant_share must be between 0.0 and 1.0"
  ELSE IF ~unit_range_contains(c.immediate_fix_rate)
    THEN "immediate_fix_rate must be between 0.0 and 1.0"
  ELSE IF ~unit_range_contains(c.stop_corrections_after_progress)
    THEN "stop_corrections_after_progress must be between 0.0 and 1.0"
  ELSE None

\* The message of the first bound the configuration breaks, or None.
validate_config(c) ==
  IF ~is_finite(c.wpm_min) THEN "wpm_min must be finite"
  ELSE IF ~is_finite(c.wpm_max) THEN "wpm_max must be finite"
  ELSE IF ~(f64_gt(c.wpm_min, Num(0)) /\ f64_gt(c.wpm_max, Num(0)))
    THEN "wpm_min and wpm_max must be > 0"
  ELSE IF ~f64_le(c.wpm_min, c.wpm_max) THEN "wpm_min must be <= wpm_max"
  ELSE IF ~unit_range_contains(c.error_rate_per_word)
    THEN "error_rate_per_word must be between 0.0 and 1.0"
  ELSE IF ~unit_range_contains(c.word_variant_share)
    THEN "word_variant_share must be between 0.0 and 1.0"
  ELSE IF ~unit_range_contains(c.immediate_fix_rate)
    THEN "immediate_fix_rate must be between 0.0 and 1.0"
  ELSE IF ~unit_range_contains(c.stop_corrections_after_progress)
    THEN "stop_corrections_after_progress must be between 0.0 and 1.0"
  ELSE IF ~(c.review_pause_ms_min <= c.review_pause_ms_max)
    THEN "review_pause_ms_min must be <= review_pause_ms_max"
  ELSE None

\* wpm_target = rng.gen_range(wpm_min..=wpm_max) of a validated
\* configuration, drawn with the generator at hand.
wpm_target == gen_range(cfg.wpm_min.v, cfg.wpm_max.v, rng_hi)

----------------------------------------------------------------------------
(* The planner as a state machine.                                         *)

NotSimulated == [ran |-> FALSE, ok |-> FALSE, text |-> <<>>]

\* No error location, no library call.
NoError == [c |-> None, code_point |-> 0, line |-> 0, col |-> 0]
NoCall == [fn |-> None]

\* c as u32, for the characters of the model outside the typeable set.
code_point(c) ==
  CASE c = "\t" -> 9
    [] c = "\r" -> 13
    [] c = "EACUTE" -> 233
    [] OTHER -> 0

\* The loop of byte_index_to_line_col from the k-th character (1-based),
\* which starts at byte off.
RECURSIVE line_col_from(_, _, _, _, _, _)
line_col_from(text, byte_idx, k, off, line, col) ==
  IF k > Len(text) \/ off >= byte_idx THEN <<line, col>>
  ELSE IF text[k] = "\n"
    THEN line_col_from(text, byte_idx, k + 1, off + Utf8Len(text[k]), line + 1, 1)
  ELSE line_col_from(text, byte_idx, k + 1, off + Utf8Len(text[k]), line, col + 1)

\* The column keeps counting across a newline.
byte_index_to_line_col_without_reset(text, byte_idx) ==
  LET lc == line_col_from(text, byte_idx, 1, 0, 1, 1)
      before == {k \in DOMAIN text : ByteLen(Slice(text, 0, k - 1)) < byte_idx}
  IN  <<lc[1], 1 + Cardinality({k \in before : text[k] /= "\n"})>>

byte_index_to_line_col(text, byte_idx) == line_col_from(text, byte_idx, 1, 0, 1, 1)

\* The error of the entry points for the unsupported character at the
\* 0-based index idx: the character, its code point, its line and column.
unsupported_character_error(text, idx) ==
  LET lc == byte_index_to_line_col(text, ByteLen(Slice(text, 0, idx)))
  IN  [c |-> text[idx + 1], code_point |-> code_point(text[idx + 1]),
       line |-> lc[1], col |-> lc[2]]

Init ==
  /\ \E sc \in Scenarios :
       /\ final_text = sc.text
       /\ entry \in Entries
       /\ alternatives =
            IF entry = "generate_plan_with_phrase_alternatives" THEN sc.alts ELSE <<>>
  /\ cfg \in Configs
  /\ rng_hi \in BOOLEAN
  /\ pc = "start"
  /\ phrase_spans = <<>>
  /\ builder = BuilderNew
  /\ editor = EditorDefault
  /\ outstanding = <<>>
  /\ i = 0
  /\ phrase_idx = 0
  /\ last_char = None
  /\ iter_i = 0
  /\ injected = 0
  /\ log = <<>>
  /\ result = None
  /\ sim = NotSimulated
  /\ error = NoError
  /\ call = NoCall
  /\ ret = NoCall

St == [b |-> builder, e |-> editor, ok |-> TRUE]

\* The builder and editor after a step that ended in st, or the error.
Commit(st, next_pc) ==
  IF st.ok
    THEN /\ builder' = st.b
         /\ editor' = st.e
         /\ pc' = next_pc
         /\ result' = result
    ELSE /\ UNCHANGED <<builder, editor>>
         /\ pc' = "done"
         /\ result' = "internal error"

\* generate_plan, generate_plan_no_revision,
\* generate_plan_with_phrase_alternatives up to the opening pause.
Preflight ==
  LET spans == IF entry = "generate_plan_with_phrase_alternatives"
                 THEN phrase_spans_from_paragraph_alternatives(final_text, alternatives)
                 ELSE [ok |-> TRUE, spans |-> <<>>]
      straight == \/ entry = "generate_plan_no_revision"
                  \/ (entry = "generate_plan" /\ cfg.no_revision)
      unsupported == find_first_unsupported_char(final_text) /= NoIndex
      \* generate_plan_with_phrase_alternatives looks at the text and the
      \* alternatives before generate_plan_impl validates the configuration;
      \* the other entry points validate the configuration first.
      failure ==
        IF entry = "generate_plan_with_phrase_alternatives"
          THEN IF unsupported THEN "unsupported character"
               ELSE IF ~spans.ok THEN "phrase alternatives failed validation"
               ELSE IF validate_config(cfg) /= None THEN "invalid config"
               ELSE None
          ELSE IF validate_config(cfg) /= None THEN "invalid config"
               ELSE IF unsupported THEN "unsupported character"
               ELSE None
  IN  /\ pc = "start"
      /\ IF failure = "unsupported character"
           THEN /\ pc' = "done"
                /\ result' = "unsupported character"
                /\ error' = unsupported_character_error(
                               final_text, find_first_unsupported_char(final_text))
                /\ UNCHANGED <<builder, phrase_spans>>
         ELSE IF failure = "phrase alternatives failed validation"
           THEN /\ pc' = "done"
                /\ result' = "phrase alternatives failed validation"
                /\ UNCHANGED <<builder, phrase_spans, error>>
         ELSE IF failure = "invalid config"
           THEN /\ pc' = "done"
                /\ result' = validate_config(cfg)
                /\ UNCHANGED <<builder, phrase_spans, error>>
         ELSE /\ pc' = IF straight THEN "straight" ELSE "main"
              /\ result' = result
              /\ error' = error
              /\ phrase_spans' = spans.spans
              /\ builder' = wait(set_modifiers(BuilderNew), gen_range(250, 600, rng_hi))
      /\ UNCHANGED <<call, ret, final_text, entry, cfg, alternatives, rng_hi, editor,
                     outstanding, i, phrase_idx, last_char, iter_i, injected, log, sim>>

\* TypeStraight followed by the pause of the review pass.
TypeStraightThenReviewPause ==
  LET typed == type_string(St, final_text, rng_hi)
  IN  /\ pc = "straight"
      /\ Commit([typed EXCEPT !.b = wait(typed.b,
                    gen_range(cfg.review_pause_ms_min, cfg.review_pause_ms_max, rng_hi))],
                "finalize")
      /\ i' = Len(final_text)
      /\ UNCHANGED <<error, call, ret, final_text, entry, cfg, alternatives, rng_hi, phrase_spans,
                     outstanding, phrase_idx, last_char, iter_i, injected, log, sim>>

\* generate_plan_no_revision: the text typed straight through.
TypeStraight ==
  /\ pc = "straight"
  /\ Commit(type_string(St, final_text, rng_hi), "finalize")
  /\ i' = Len(final_text)
  /\ UNCHANGED <<error, call, ret, final_text, entry, cfg, alternatives, rng_hi, phrase_spans,
                 outstanding, phrase_idx, last_char, iter_i, injected, log, sim>>

InMainLoop == pc = "main" /\ i < Len(final_text)

next_phrase_start ==
  IF phrase_idx < Len(phrase_spans) THEN phrase_spans[phrase_idx + 1].start
  ELSE NoIndex

Enqueued(err) == [ev |-> "enqueue", err |-> err]
\* A correction, with the position of the walk at which it is made.
Corrected(err, phase) == [ev |-> "fix", err |-> err, phase |-> phase, at |-> i]

\* TypePhraseAlternative with the walk advanced by the alternative's length.
TypePhraseAlternativeAdvancingByTyped ==
  LET span == phrase_spans[phrase_idx + 1]
      err == [start |-> editor.cursor,
              wrong |-> span.alternative,
              correct |-> span.original,
              fix_after_chars |-> gen_range(90, 420, rng_hi),
              constraint |-> "SentenceOrParagraphBoundary"]
  IN  /\ InMainLoop
      /\ next_phrase_start = i
      /\ Len(outstanding) < cfg.max_outstanding_errors
      /\ Commit(type_string(St, span.alternative, rng_hi), "fix")
      /\ outstanding' = Append(outstanding, err)
      /\ log' = Append(log, Enqueued(err))
      /\ last_char' = span.alternative[Len(span.alternative)]
      /\ i' = i + Len(span.alternative)
      /\ phrase_idx' = phrase_idx + 1
      /\ iter_i' = i
      /\ UNCHANGED <<error, call, ret, final_text, entry, cfg, alternatives, rng_hi, phrase_spans,
                     injected, sim>>

\* The phrase branch with pending errors below the cap: the alternative is
\* typed and an error is pushed.
TypePhraseAlternative ==
  LET span == phrase_spans[phrase_idx + 1]
      err == [start |-> editor.cursor,
              wrong |-> span.alternative,
              correct |-> span.original,
              fix_after_chars |-> gen_range(90, 420, rng_hi),
              constraint |-> "SentenceOrParagraphBoundary"]
  IN  /\ InMainLoop
      /\ next_phrase_start = i
      /\ Len(outstanding) < cfg.max_outstanding_errors
      /\ Commit(type_string(St, span.alternative, rng_hi), "fix")
      /\ outstanding' = Append(outstanding, err)
      /\ log' = Append(log, Enqueued(err))
      /\ last_char' = span.alternative[Len(span.alternative)]
      /\ i' = i + span.original_len_chars
      /\ phrase_idx' = phrase_idx + 1
      /\ iter_i' = i
      /\ UNCHANGED <<error, call, ret, final_text, entry, cfg, alternatives, rng_hi, phrase_spans,
                     injected, sim>>

\* The phrase branch with the cap reached: the original is typed.
TypePhraseOriginal ==
  LET span == phrase_spans[phrase_idx + 1]
  IN  /\ InMainLoop
      /\ next_phrase_start = i
      /\ ~(Len(outstanding) < cfg.max_outstanding_errors)
      /\ Commit(type_string(St, span.original, rng_hi), "fix")
      /\ last_char' = span.original[Len(span.original)]
      /\ i' = i + span.original_len_chars
      /\ phrase_idx' = phrase_idx + 1
      /\ iter_i' = i
      /\ UNCHANGED <<error, call, ret, final_text, entry, cfg, alternatives, rng_hi, phrase_spans,
                     outstanding, injected, log, sim>>

\* The end (exclusive) of the maximal run of word characters from start.
RECURSIVE word_end_from(_, _)
word_end_from(chars, idx) ==
  IF idx < Len(chars) /\ planner_is_word_char(chars[idx + 1])
    THEN word_end_from(chars, idx + 1)
    ELSE idx

AtWord ==
  /\ InMainLoop
  /\ next_phrase_start /= i
  /\ planner_is_word_char(final_text[i + 1])

PhraseInsideWord ==
  /\ next_phrase_start /= NoIndex
  /\ next_phrase_start > i
  /\ next_phrase_start < word_end_from(final_text, i + 1)

\* The word branch when a phrase span begins inside the word: the prefix.
TypeWordPrefix ==
  LET p == next_phrase_start
  IN  /\ AtWord
      /\ PhraseInsideWord
      /\ Commit(type_string(St, Slice(final_text, i, p), rng_hi), "fix")
      /\ last_char' = final_text[p]
      /\ i' = p
      /\ iter_i' = i
      /\ UNCHANGED <<error, call, ret, final_text, entry, cfg, alternatives, rng_hi, phrase_spans,
                     outstanding, phrase_idx, injected, log, sim>>

\* InjectDraws without the test of the cap.
InjectDrawsIgnoringCap ==
  IF injected < MaxInjected THEN GenBool(cfg.error_rate_per_word) ELSE {FALSE}

\* The draws of inject_error: the coin gen_bool(error_rate_per_word) falls
\* once MaxInjected errors were injected.
InjectDraws ==
  {coin /\ Len(outstanding) < cfg.max_outstanding_errors :
     coin \in IF injected < MaxInjected THEN GenBool(cfg.error_rate_per_word)
              ELSE {FALSE}}

\* The wrong forms the draws can produce for a word (NoWord: no form).
WrongDraws(word) ==
  UNION {WrongWords(word, want_variant) : want_variant \in GenBool(cfg.word_variant_share)}

\* The word branch without an error: no injection, or no wrong form.
TypeWordClean ==
  LET word_end == word_end_from(final_text, i + 1)
      word == Slice(final_text, i, word_end)
  IN  /\ AtWord
      /\ ~PhraseInsideWord
      /\ \/ FALSE \in InjectDraws
         \/ (TRUE \in InjectDraws /\ NoWord \in WrongDraws(word))
      /\ Commit(type_string(St, word, rng_hi), "fix")
      /\ last_char' = final_text[word_end]
      /\ i' = word_end
      /\ iter_i' = i
      /\ UNCHANGED <<error, call, ret, final_text, entry, cfg, alternatives, rng_hi, phrase_spans,
                     outstanding, phrase_idx, injected, log, sim>>

\* The word branch with an error fixed at once (replace_at_end).
TypeWordImmediateFix ==
  LET word_end == word_end_from(final_text, i + 1)
      word == Slice(final_text, i, word_end)
  IN  /\ AtWord
      /\ ~PhraseInsideWord
      /\ TRUE \in InjectDraws
      /\ TRUE \in GenBool(cfg.immediate_fix_rate)
      /\ \E wrong_word \in WrongDraws(word) \ {NoWord} :
           /\ Commit(replace_at_end(type_string(St, wrong_word, rng_hi),
                                    wrong_word, word, rng_hi), "fix")
           /\ log' = Append(log, [ev |-> "immediate",
                                  err |-> [start |-> editor.cursor,
                                           wrong |-> wrong_word, correct |-> word]])
      /\ injected' = injected + 1
      /\ last_char' = final_text[word_end]
      /\ i' = word_end
      /\ iter_i' = i
      /\ UNCHANGED <<error, call, ret, final_text, entry, cfg, alternatives, rng_hi, phrase_spans,
                     outstanding, phrase_idx, sim>>

\* The word branch with an error left for later: an error is pushed.
TypeWordEnqueue ==
  LET word_end == word_end_from(final_text, i + 1)
      word == Slice(final_text, i, word_end)
  IN  /\ AtWord
      /\ ~PhraseInsideWord
      /\ TRUE \in InjectDraws
      /\ FALSE \in GenBool(cfg.immediate_fix_rate)
      /\ \E wrong_word \in WrongDraws(word) \ {NoWord} :
           LET err == [start |-> editor.cursor,
                       wrong |-> wrong_word,
                       correct |-> word,
                       fix_after_chars |-> gen_range(25, 220, rng_hi),
                       constraint |-> "None"]
           IN  /\ Commit(type_string(St, wrong_word, rng_hi), "fix")
               /\ outstanding' = Append(outstanding, err)
               /\ log' = Append(log, Enqueued(err))
      /\ injected' = injected + 1
      /\ last_char' = final_text[word_end]
      /\ i' = word_end
      /\ iter_i' = i
      /\ UNCHANGED <<error, call, ret, final_text, entry, cfg, alternatives, rng_hi, phrase_spans,
                     phrase_idx, sim>>

AtOtherChar ==
  /\ InMainLoop
  /\ next_phrase_start /= i
  /\ ~planner_is_word_char(final_text[i + 1])

\* The coin gen_bool(0.015) of the double space falls once MaxInjected
\* errors were injected.
DoubleSpaceDraws ==
  {final_text[i + 1] = " " /\ coin /\ Len(outstanding) < cfg.max_outstanding_errors :
     coin \in IF injected < MaxInjected THEN BOOLEAN ELSE {FALSE}}

\* The non-word branch: the character is typed.
TypeChar ==
  /\ AtOtherChar
  /\ FALSE \in DoubleSpaceDraws
  /\ Commit(type_string(St, <<final_text[i + 1]>>, rng_hi), "fix")
  /\ last_char' = final_text[i + 1]
  /\ i' = i + 1
  /\ iter_i' = i
  /\ UNCHANGED <<error, call, ret, final_text, entry, cfg, alternatives, rng_hi, phrase_spans,
                 outstanding, phrase_idx, injected, log, sim>>

\* The non-word branch with the double-space typo: an error is pushed.
TypeDoubleSpace ==
  LET err == [start |-> editor.cursor,
              wrong |-> <<" ", " ">>,
              correct |-> <<" ">>,
              fix_after_chars |-> gen_range(40, 260, rng_hi),
              constraint |-> "None"]
  IN  /\ AtOtherChar
      /\ TRUE \in DoubleSpaceDraws
      /\ Commit(type_string(St, <<" ", " ">>, rng_hi), "fix")
      /\ outstanding' = Append(outstanding, err)
      /\ log' = Append(log, Enqueued(err))
      /\ injected' = injected + 1
      /\ last_char' = final_text[i + 1]
      /\ i' = i + 1
      /\ iter_i' = i
      /\ UNCHANGED <<error, call, ret, final_text, entry, cfg, alternatives, rng_hi, phrase_spans,
                     phrase_idx, sim>>

\* should_fix for the last pending error, with the coin gen_bool(0.12).
\* should_fix without force_fix: the bound on the outstanding errors is not
\* looked at.
should_fix_without_force_fix(err, coin) ==
  LET wrong_len == Len(err.wrong)
      age == Max(editor.cursor - (err.start + wrong_len), 0)
      late_stage ==
        iter_i * 100 >= cfg.stop_corrections_after_progress * Len(final_text)
      due == age >= err.fix_after_chars
      boundary_for_random_fix ==
        IF err.constraint = "None"
          THEN last_char = " " \/ last_char \in {",", ".", ";", ":", "!", "?", "\n"}
          ELSE sentence_or_paragraph_boundary(last_char)
      random_fix == ~late_stage /\ coin /\ boundary_for_random_fix
  IN  IF err.constraint = "None"
        THEN (due /\ ~late_stage) \/ random_fix
        ELSE sentence_or_paragraph_boundary(last_char)
             /\ ((due /\ ~late_stage) \/ random_fix)

\* should_fix with every error treated as one of constraint None.
should_fix_ignoring_constraint(err, coin) ==
  LET wrong_len == Len(err.wrong)
      age == Max(editor.cursor - (err.start + wrong_len), 0)
      late_stage ==
        iter_i * 100 >= cfg.stop_corrections_after_progress * Len(final_text)
      force_fix == Len(outstanding) >= cfg.max_outstanding_errors
      due == age >= err.fix_after_chars
      boundary_for_random_fix ==
        last_char = " " \/ last_char \in {",", ".", ";", ":", "!", "?", "\n"}
      random_fix == ~late_stage /\ coin /\ boundary_for_random_fix
  IN  force_fix \/ (due /\ ~late_stage) \/ random_fix

\* should_fix with late_stage never set: the progress is not looked at.
should_fix_at_any_progress(err, coin) ==
  LET wrong_len == Len(err.wrong)
      age == Max(editor.cursor - (err.start + wrong_len), 0)
      force_fix == Len(outstanding) >= cfg.max_outstanding_errors
      due == age >= err.fix_after_chars
      boundary_for_random_fix ==
        IF err.constraint = "None"
          THEN last_char = " " \/ last_char \in {",", ".", ";", ":", "!", "?", "\n"}
          ELSE sentence_or_paragraph_boundary(last_char)
      random_fix == coin /\ boundary_for_random_fix
  IN  IF err.constraint = "None"
        THEN force_fix \/ due \/ random_fix
        ELSE sentence_or_paragraph_boundary(last_char)
             /\ (force_fix \/ due \/ random_fix)

should_fix(err, coin) ==
  LET wrong_len == Len(err.wrong)
      age == Max(editor.cursor - (err.start + wrong_len), 0)
      late_stage ==
        iter_i * 100 >= cfg.stop_corrections_after_progress * Len(final_text)
      force_fix == Len(outstanding) >= cfg.max_outstanding_errors
      due == age >= err.fix_after_chars
      boundary_for_random_fix ==
        IF err.constraint = "None"
          THEN last_char = " " \/ last_char \in {",", ".", ";", ":", "!", "?", "\n"}
          ELSE sentence_or_paragraph_boundary(last_char)
      random_fix == ~late_stage /\ coin /\ boundary_for_random_fix
  IN  IF err.constraint = "None"
        THEN force_fix \/ (due /\ ~late_stage) \/ random_fix
        ELSE sentence_or_paragraph_boundary(last_char)
             /\ (force_fix \/ (due /\ ~late_stage) \/ random_fix)

ShouldFixDraws ==
  IF outstanding = <<>> THEN {FALSE}
  ELSE {should_fix(outstanding[Len(outstanding)], coin) : coin \in BOOLEAN}

\* Vec::last in place of Vec::pop: nothing is removed.
pop_nothing(s) == s

\* The first element removed in place of the last.
pop_front(s) == SubSeq(s, 2, Len(s))

\* Vec::pop: the last element is removed.
pop(s) == SubSeq(s, 1, Len(s) - 1)

\* The oldest element in place of the newest.
popped_oldest(s) == s[1]

popped(s) == s[Len(s)]

\* The delayed correction of the most recent error, after a token.
OpportunisticFix ==
  LET err == popped(outstanding)
      fixed == fix_error_at_position(St, err, cfg.word_nav_profile, rng_hi)
  IN  /\ pc = "fix"
      /\ TRUE \in ShouldFixDraws
      /\ outstanding' = pop(outstanding)
      /\ log' = Append(log, Corrected(err, "main"))
      /\ Commit([fixed EXCEPT !.b = wait(fixed.b, gen_range(80, 420, rng_hi))], "main")
      /\ UNCHANGED <<error, call, ret, final_text, entry, cfg, alternatives, rng_hi, phrase_spans, i,
                     phrase_idx, last_char, iter_i, injected, sim>>

\* No correction after this token.
SkipFix ==
  /\ pc = "fix"
  /\ FALSE \in ShouldFixDraws
  /\ pc' = "main"
  /\ UNCHANGED <<error, call, ret, final_text, entry, cfg, alternatives, rng_hi, phrase_spans, builder,
                 editor, outstanding, i, phrase_idx, last_char, iter_i, injected, log,
                 result, sim>>

\* The pause before the review pass.
ReviewPause ==
  /\ pc = "main"
  /\ ~(i < Len(final_text))
  /\ builder' = wait(builder, gen_range(cfg.review_pause_ms_min,
                                        cfg.review_pause_ms_max, rng_hi))
  /\ pc' = "review"
  /\ UNCHANGED <<error, call, ret, final_text, entry, cfg, alternatives, rng_hi, phrase_spans, editor,
                 outstanding, i, phrase_idx, last_char, iter_i, injected, log, result,
                 sim>>

\* One turn of the review loop: while let Some(err) = outstanding.pop().
ReviewFix ==
  LET err == popped(outstanding)
      fixed == fix_error_at_position(St, err, cfg.word_nav_profile, rng_hi)
  IN  /\ pc = "review"
      /\ outstanding /= <<>>
      /\ outstanding' = pop(outstanding)
      /\ log' = Append(log, Corrected(err, "review"))
      /\ Commit([fixed EXCEPT !.b = wait(fixed.b, gen_range(120, 520, rng_hi))],
                "review")
      /\ UNCHANGED <<error, call, ret, final_text, entry, cfg, alternatives, rng_hi, phrase_spans, i,
                     phrase_idx, last_char, iter_i, injected, sim>>

\* The return to neutral modifiers and the final comparison.
\* The end of generate_plan_impl without the release of Shift and Ctrl.
FinalizeWithoutRelease ==
  /\ \/ pc = "finalize"
     \/ (pc = "review" /\ outstanding = <<>>)
  /\ builder' = set_modifiers(builder)
  /\ result' = IF editor.buf /= final_text
                 THEN "planner bug: simulated text does not match final draft"
                 ELSE "ok"
  /\ pc' = "done"
  /\ UNCHANGED <<error, call, ret, final_text, entry, cfg, alternatives, rng_hi, phrase_spans, editor,
                 outstanding, i, phrase_idx, last_char, iter_i, injected, log, sim>>

Finalize ==
  /\ \/ pc = "finalize"
     \/ (pc = "review" /\ outstanding = <<>>)
  /\ builder' = set_modifiers(set_ctrl(set_shift(builder, FALSE, rng_hi), FALSE, rng_hi))
  /\ result' = IF editor.buf /= final_text
                 THEN "planner bug: simulated text does not match final draft"
                 ELSE "ok"
  /\ pc' = "done"
  /\ UNCHANGED <<error, call, ret, final_text, entry, cfg, alternatives, rng_hi, phrase_spans, editor,
                 outstanding, i, phrase_idx, last_char, iter_i, injected, log, sim>>

----------------------------------------------------------------------------
(* sim.rs: the plan simulator.                                             *)

\* us_qwerty_keystroke_map: the character of a (keycode, shift) pair.
KeystrokeMap ==
  LET strokes == {<<KeyTable[k][2], KeyTable[k][3]>> : k \in DOMAIN KeyTable}
  IN  [s \in strokes |->
         KeyTable[CHOOSE k \in DOMAIN KeyTable :
                    KeyTable[k][2] = s[1] /\ KeyTable[k][3] = s[2]][1]]

SimNew == [buf |-> <<>>, cursor |-> 0, shift_down |-> FALSE, ctrl_down |-> FALSE,
           err |-> None]

SimEditor(s) == [buf |-> s.buf, cursor |-> s.cursor]
WithEditor(s, e) == [s EXCEPT !.buf = e.buf, !.cursor = e.cursor]

sim_delete(e) ==
  IF e.cursor >= Len(e.buf) THEN e ELSE [e EXCEPT !.buf = RemoveAt(e.buf, e.cursor)]

\* A turn of the loop that takes no notice of the release of Left-Ctrl.
sim_step_keeping_ctrl(s, a) ==
  IF s.err /= None \/ a.type /= "key" THEN s
  ELSE IF a.keycode \in {KEY_LEFTSHIFT, KEY_RIGHTSHIFT}
    THEN [s EXCEPT !.shift_down = (a.state = "pressed")]
  ELSE IF a.keycode = KEY_LEFTCTRL
    THEN [s EXCEPT !.ctrl_down = (@ \/ a.state = "pressed")]
  ELSE IF a.state = "released" THEN s
  ELSE IF a.keycode = KEY_LEFT
    THEN IF s.ctrl_down
           THEN [s EXCEPT !.cursor = ctrl_left(s.buf, s.cursor, "sim")]
           ELSE WithEditor(s, move_left(SimEditor(s)))
  ELSE IF a.keycode = KEY_RIGHT
    THEN IF s.ctrl_down
           THEN [s EXCEPT !.cursor = ctrl_right(s.buf, s.cursor, "sim")]
           ELSE WithEditor(s, move_right(SimEditor(s)))
  ELSE IF a.keycode = KEY_BACKSPACE
    THEN WithEditor(s, editor_backspace(SimEditor(s)))
  ELSE IF a.keycode = KEY_DELETE
    THEN WithEditor(s, sim_delete(SimEditor(s)))
  ELSE IF s.ctrl_down THEN [s EXCEPT !.err = "unsupported Ctrl+keycode"]
  ELSE IF <<a.keycode, s.shift_down>> \notin DOMAIN KeystrokeMap
    THEN [s EXCEPT !.err = "unsupported keycode"]
  ELSE WithEditor(s, insert_char(SimEditor(s), KeystrokeMap[<<a.keycode, s.shift_down>>]))

\* One turn of simulate_typed_text's loop.
sim_step(s, a) ==
  IF s.err /= None \/ a.type /= "key" THEN s
  ELSE IF a.keycode \in {KEY_LEFTSHIFT, KEY_RIGHTSHIFT}
    THEN [s EXCEPT !.shift_down = (a.state = "pressed")]
  ELSE IF a.keycode = KEY_LEFTCTRL
    THEN [s EXCEPT !.ctrl_down = (a.state = "pressed")]
  ELSE IF a.state = "released" THEN s
  ELSE IF a.keycode = KEY_LEFT
    THEN IF s.ctrl_down
           THEN [s EXCEPT !.cursor = ctrl_left(s.buf, s.cursor, "sim")]
           ELSE WithEditor(s, move_left(SimEditor(s)))
  ELSE IF a.keycode = KEY_RIGHT
    THEN IF s.ctrl_down
           THEN [s EXCEPT !.cursor = ctrl_right(s.buf, s.cursor, "sim")]
           ELSE WithEditor(s, move_right(SimEditor(s)))
  ELSE IF a.keycode = KEY_BACKSPACE
    THEN WithEditor(s, editor_backspace(SimEditor(s)))
  ELSE IF a.keycode = KEY_DELETE
    THEN WithEditor(s, sim_delete(SimEditor(s)))
  ELSE IF s.ctrl_down THEN [s EXCEPT !.err = "unsupported Ctrl+keycode"]
  ELSE IF <<a.keycode, s.shift_down>> \notin DOMAIN KeystrokeMap
    THEN [s EXCEPT !.err = "unsupported keycode"]
  ELSE WithEditor(s, insert_char(SimEditor(s), KeystrokeMap[<<a.keycode, s.shift_down>>]))

\* The loop over actions[lo..hi], folded by halves (the turns are applied
\* in order, left half first; a turn after an error changes nothing).
RECURSIVE sim_run(_, _, _, _)
sim_run(s, actions, lo, hi) ==
  IF s.err /= None \/ lo > hi THEN s
  ELSE IF lo = hi THEN sim_step(s, actions[lo])
  ELSE sim_run(sim_run(s, actions, lo, (lo + hi) \div 2), actions,
               (lo + hi) \div 2 + 1, hi)

\* simulate_typed_text: [ran, ok, text].
simulate_typed_text(actions) ==
  LET s == sim_run(SimNew, actions, 1, Len(actions))
  IN  IF s.err /= None THEN [ran |-> TRUE, ok |-> FALSE, text |-> <<>>]
      ELSE [ran |-> TRUE, ok |-> TRUE, text |-> s.buf]

\* The returned plan replayed through the simulator.
Simulate ==
  /\ pc = "done"
  /\ result = "ok"
  /\ sim = NotSimulated
  /\ sim' = simulate_typed_text(builder.actions)
  /\ pc' = "simulated"
  /\ UNCHANGED <<error, call, ret, final_text, entry, cfg, alternatives, rng_hi, phrase_spans, builder,
                 editor, outstanding, i, phrase_idx, last_char, iter_i, injected, log,
                 result>>

Next ==
  \/ Preflight
  \/ TypeStraight
  \/ TypePhraseAlternative
  \/ TypePhraseOriginal
  \/ TypeWordPrefix
  \/ TypeWordClean
  \/ TypeWordImmediateFix
  \/ TypeWordEnqueue
  \/ TypeChar
  \/ TypeDoubleSpace
  \/ OpportunisticFix
  \/ SkipFix
  \/ ReviewPause
  \/ ReviewFix
  \/ Finalize
  \/ Simulate

Spec == Init /\ [][Next]_vars

----------------------------------------------------------------------------
(* Observations of a run and of its plan.                                  *)

SmartQuotes == {"LSQUO", "RSQUO", "LDQUO", "RDQUO"}

HasSmartQuote(text) == \E k \in DOMAIN text : text[k] \in SmartQuotes

\* The text with each single smart quote replaced by ' and each double one
\* by ".
AsciiQuotes(text) ==
  [k \in DOMAIN text |->
     IF text[k] \in {"LSQUO", "RSQUO"} THEN "'"
     ELSE IF text[k] \in {"LDQUO", "RDQUO"} THEN "\""
     ELSE text[k]]

\* The inputs pass the checks made before planning.
InputsValid ==
  /\ find_first_unsupported_char(final_text) = NoIndex
  /\ entry = "generate_plan_with_phrase_alternatives"
       => phrase_spans_from_paragraph_alternatives(final_text, alternatives).ok

\* Plan generation has returned (a plan or an error).
Returned == pc \in {"done", "simulated"}

\* Plan generation has returned a plan.
PlanReturned == Returned /\ result = "ok"

LogHas(ev) == \E k \in DOMAIN log : log[k].ev = ev

ModifierKeys == {KEY_LEFTSHIFT, KEY_RIGHTSHIFT, KEY_LEFTCTRL}

IsKeyOf(a, keycodes) == a.type = "key" /\ a.keycode \in keycodes

\* The plan holds an event (press or release) of one of the keys.
HasKeyEvent(actions, keycodes) ==
  \E k \in DOMAIN actions : IsKeyOf(actions[k], keycodes)

HasWait(actions, ms) ==
  \E k \in DOMAIN actions : actions[k].type = "wait" /\ actions[k].ms = ms

\* No Backspace, Left or Right key event and no wait of the review pause.
StraightThrough(actions) ==
  /\ ~HasKeyEvent(actions, {KEY_BACKSPACE, KEY_LEFT, KEY_RIGHT})
  /\ ~HasWait(actions, cfg.review_pause_ms_max)

\* The events of the keys other than Shift and Ctrl, in order.
NonModifierKeyEvents(actions) ==
  SelectSeq(actions, LAMBDA a : a.type = "key" /\ a.keycode \notin ModifierKeys)

\* Whether Shift is held at index k: the last Shift event up to k is a press.
ShiftHeldAt(actions, k) ==
  LET events == {j \in 1..k : IsKeyOf(actions[j], {KEY_LEFTSHIFT, KEY_RIGHTSHIFT})}
  IN  events /= {}
      /\ actions[CHOOSE j \in events : \A m \in events : m <= j].state = "pressed"

\* The characters the presses of the plan's non-modifier keys type, each
\* with the Shift state at the press, as (keycode, shift) pairs in order.
TypedStrokes(actions) ==
  LET presses == SelectSeq(
                   [k \in DOMAIN actions |-> [a |-> actions[k], k |-> k]],
                   LAMBDA x : x.a.type = "key" /\ x.a.keycode \notin ModifierKeys
                              /\ x.a.state = "pressed")
  IN  [n \in DOMAIN presses |->
         [keycode |-> presses[n].a.keycode,
          shift |-> ShiftHeldAt(actions, presses[n].k)]]

\* A press followed by a release of the key of each character of the text.
TargetKeyEvents(text) ==
  [n \in 1..(2 * Len(text)) |->
     KeyAction(keystroke_for_output_char(text[(n + 1) \div 2]).keycode,
               IF n % 2 = 1 THEN "pressed" ELSE "released")]

TargetStrokes(text) == [n \in DOMAIN text |-> keystroke_for_output_char(text[n])]

----------------------------------------------------------------------------
(* C1: for supported text, a valid configuration and validated phrase      *)
(* alternatives, plan generation returns a plan, and at that point the     *)
(* planner's editor buffer equals the target text: the "planner bug"       *)
(* error (or any other error) is never returned, from any entry point.     *)
PlanReachesTarget ==
  (Returned /\ InputsValid) => (result = "ok" /\ editor.buf = final_text)

\* A plan was returned after at least one delayed correction.
PlanReachesTargetWitness ==
  /\ pc = "done"
  /\ result = "ok"
  /\ editor.buf = final_text
  /\ LogHas("fix")
  /\ LogHas("immediate")

----------------------------------------------------------------------------
(* C2: for a target text with smart quotes, under either profile, the      *)
(* simulator replays the returned plan without error and yields the target *)
(* text with each smart quote replaced by its ASCII quote.                 *)
SmartQuoteFidelity ==
  (pc = "simulated" /\ HasSmartQuote(final_text))
    => (sim.ok /\ sim.text = AsciiQuotes(final_text))

----------------------------------------------------------------------------
(* C3: for a target text without smart quotes, under either profile, with  *)
(* or without phrase alternatives, the simulator replays the returned plan *)
(* without error and yields exactly the target text.                       *)
AsciiFidelity ==
  (pc = "simulated" /\ ~HasSmartQuote(final_text))
    => (sim.ok /\ sim.text = final_text)

----------------------------------------------------------------------------
(* C4: with error_rate_per_word = 0 and no_revision not set, the plan      *)
(* generate_plan returns holds no Backspace, Left or Right key event and   *)
(* no wait of the review pause (99999 ms here).                            *)
ErrorRateZeroStraightThrough ==
  (PlanReturned /\ entry = "generate_plan" /\ cfg.error_rate_per_word = 0
     /\ ~cfg.no_revision)
    => StraightThrough(builder.actions)

----------------------------------------------------------------------------
(* C5: with no_revision set, the plan generate_plan returns holds no       *)
(* Backspace, Left or Right key event and no wait of the review pause; its *)
(* non-modifier key events are a press and a release of the key of each    *)
(* character of the target, in order, each pressed with that character's   *)
(* Shift state.                                                            *)
NoRevisionStraightThrough ==
  (PlanReturned /\ entry = "generate_plan" /\ cfg.no_revision)
    => /\ StraightThrough(builder.actions)
       /\ NonModifierKeyEvents(builder.actions) = TargetKeyEvents(final_text)
       /\ TypedStrokes(builder.actions) = TargetStrokes(final_text)

\* A no-revision plan of a text with shifted characters was returned.
NoRevisionStraightThroughWitness ==
  /\ pc = "done"
  /\ result = "ok"
  /\ entry = "generate_plan"
  /\ cfg.no_revision
  /\ cfg.error_rate_per_word > 0
  /\ final_text = TextHelloWorld
  /\ HasKeyEvent(builder.actions, {KEY_LEFTSHIFT})

----------------------------------------------------------------------------
(* The plan replayed key by key, noting each Left or Right press made      *)
(* while Ctrl is held: the span it moves the cursor over, with the         *)
(* character before the span and the character after it.                   *)

IsSafeChar(c) == is_ascii_alphanumeric(c) \/ c = " "

\* The characters buf[lo..hi) with their two neighbours are all safe.
SpanWithBoundariesSafe(buf, from, to) ==
  LET lo == Min(from, to)
      hi == Max(from, to)
  IN  \A k \in Max(lo, 1)..Min(hi + 1, Len(buf)) : IsSafeChar(buf[k])

ReplayNew == [s |-> SimNew, safe |-> TRUE, lefts |-> 0, rights |-> 0]

replay_step(m, a) ==
  LET ctrl_arrow == /\ a.type = "key"
                    /\ a.state = "pressed"
                    /\ a.keycode \in {KEY_LEFT, KEY_RIGHT}
                    /\ m.s.ctrl_down
      to == IF a.keycode = KEY_LEFT THEN ctrl_left(m.s.buf, m.s.cursor, "sim")
            ELSE ctrl_right(m.s.buf, m.s.cursor, "sim")
  IN  IF ~ctrl_arrow THEN [m EXCEPT !.s = sim_step(m.s, a)]
      ELSE [s |-> sim_step(m.s, a),
            safe |-> m.safe /\ SpanWithBoundariesSafe(m.s.buf, m.s.cursor, to),
            lefts |-> m.lefts + (IF a.keycode = KEY_LEFT THEN 1 ELSE 0),
            rights |-> m.rights + (IF a.keycode = KEY_RIGHT THEN 1 ELSE 0)]

RECURSIVE replay(_, _, _, _)
replay(m, actions, lo, hi) ==
  IF m.s.err /= None \/ lo > hi THEN m
  ELSE IF lo = hi THEN replay_step(m, actions[lo])
  ELSE replay(replay(m, actions, lo, (lo + hi) \div 2), actions,
              (lo + hi) \div 2 + 1, hi)

Replayed == replay(ReplayNew, builder.actions, 1, Len(builder.actions))

----------------------------------------------------------------------------
(* C7: in a plan generated with the Compatible profile, every Left or      *)
(* Right press made while Ctrl is held moves the cursor over a span whose  *)
(* characters, with the character before the span and the character after  *)
(* it when they exist, are all ASCII letters, digits or spaces.            *)
CompatibleCtrlSpansSafe ==
  (pc = "done" /\ result = "ok" /\ cfg.word_nav_profile = "Compatible")
    => Replayed.safe

\* A Compatible plan with a Ctrl+Left and a Ctrl+Right press was returned.
CompatibleCtrlSpansSafeWitness ==
  /\ pc = "done"
  /\ result = "ok"
  /\ cfg.word_nav_profile = "Compatible"
  /\ Replayed.lefts > 0
  /\ Replayed.rights > 0

----------------------------------------------------------------------------
(* The plan scanned for its modifier state: at each index, the mask the    *)
(* Shift and Ctrl key events so far imply and the depressed bits of the    *)
(* last Modifiers action so far (0 before the first).                      *)

MaskNew ==
  [shift |-> FALSE, ctrl |-> FALSE, mods |-> 0, after_modifier_key |-> FALSE,
   every_index |-> TRUE, settled |-> TRUE]

mask_step(m, a) ==
  LET modifier_key == IsKeyOf(a, ModifierKeys)
      shift == IF IsKeyOf(a, {KEY_LEFTSHIFT, KEY_RIGHTSHIFT})
                 THEN a.state = "pressed" ELSE m.shift
      ctrl == IF IsKeyOf(a, {KEY_LEFTCTRL}) THEN a.state = "pressed" ELSE m.ctrl
      mods == IF a.type = "modifiers" THEN a.mods_depressed ELSE m.mods
      implied == (IF shift THEN shift_mask ELSE 0) + (IF ctrl THEN ctrl_mask ELSE 0)
      in_transition == modifier_key \/ (a.type = "wait" /\ m.after_modifier_key)
  IN  [shift |-> shift, ctrl |-> ctrl, mods |-> mods,
       after_modifier_key |-> modifier_key,
       every_index |-> m.every_index /\ implied = mods,
       settled |-> m.settled /\ (in_transition \/ implied = mods)]

\* The scan of actions[lo..hi], by halves; once settled is lost so is
\* every_index, and the scan stops.
RECURSIVE mask_scan(_, _, _, _)
mask_scan(m, actions, lo, hi) ==
  IF ~m.settled \/ lo > hi THEN m
  ELSE IF lo = hi THEN mask_step(m, actions[lo])
  ELSE mask_scan(mask_scan(m, actions, lo, (lo + hi) \div 2), actions,
                 (lo + hi) \div 2 + 1, hi)

Masks == mask_scan(MaskNew, builder.actions, 1, Len(builder.actions))

----------------------------------------------------------------------------
(* C8 as stated: at every action index of a generated plan, the mask       *)
(* implied by the Shift and Ctrl key events up to that index equals the    *)
(* depressed bits of the last Modifiers action up to that index.           *)
ModifierMaskAtEveryIndex == (pc = "done" /\ result = "ok") => Masks.every_index

(* C8: at every action index of a generated plan other than a Shift or     *)
(* Ctrl key event and the wait that directly follows it, the mask implied  *)
(* by the Shift and Ctrl key events up to that index equals the depressed  *)
(* bits of the last Modifiers action up to that index.                     *)
ModifierMaskOnceSettled == (pc = "done" /\ result = "ok") => Masks.settled

\* A plan with Shift and Ctrl key events was returned.
ModifierMaskOnceSettledWitness ==
  /\ pc = "done"
  /\ result = "ok"
  /\ HasKeyEvent(builder.actions, {KEY_LEFTSHIFT})
  /\ HasKeyEvent(builder.actions, {KEY_LEFTCTRL})
  /\ Masks.settled
  /\ ~Masks.every_index

----------------------------------------------------------------------------
(* C9: the number of pending errors never exceeds max_outstanding_errors;  *)
(* with max_outstanding_errors = 0 no error and no phrase alternative is   *)
(* injected (nothing is enqueued, fixed at once or corrected).             *)
PendingWithinCap ==
  /\ Len(outstanding) <= cfg.max_outstanding_errors
  /\ cfg.max_outstanding_errors = 0 => (log = <<>> /\ injected = 0)

\* Two errors are pending with a cap of two.
PendingWithinCapWitness ==
  /\ Len(outstanding) = 2
  /\ cfg.max_outstanding_errors = 2
  /\ LogHas("enqueue")

----------------------------------------------------------------------------
(* The log replayed as a stack: an enqueued error is pushed, a correction  *)
(* must be of the top of the stack and pops it.                            *)

RECURSIVE lifo_replay(_, _)
lifo_replay(events, n) ==
  IF n = 0 THEN [ok |-> TRUE, stack |-> <<>>]
  ELSE LET before == lifo_replay(events, n - 1)
           e == events[n]
       IN  IF e.ev = "enqueue"
             THEN [before EXCEPT !.stack = Append(@, e.err)]
           ELSE IF e.ev = "fix"
             THEN IF before.stack /= <<>> /\ before.stack[Len(before.stack)] = e.err
                    THEN [before EXCEPT !.stack = SubSeq(@, 1, Len(@) - 1)]
                    ELSE [before EXCEPT !.ok = FALSE]
           ELSE before

(* C10: every correction, opportunistic or of the review pass, is of the   *)
(* most recently enqueued error that is still pending, so no error is      *)
(* corrected while an error enqueued after it is pending; the pending      *)
(* errors are those enqueued and not yet corrected, oldest first.          *)
CorrectionsLifo ==
  LET r == lifo_replay(log, Len(log))
  IN  r.ok /\ r.stack = outstanding

\* Two errors were enqueued and then corrected, the later one first.
CorrectionsLifoWitness ==
  \E k \in 1..(Len(log) - 3) :
    /\ log[k].ev = "enqueue"
    /\ log[k + 1].ev = "enqueue"
    /\ log[k + 2].ev = "fix"
    /\ log[k + 3].ev = "fix"
    /\ log[k + 2].err = log[k + 1].err
    /\ log[k + 3].err = log[k].err
    /\ log[k].err /= log[k + 1].err

----------------------------------------------------------------------------
(* The phrase branch of the walk and the correction of its errors.         *)

IsPhraseError(err) == err.constraint = "SentenceOrParagraphBoundary"

PhrasePending == \E k \in DOMAIN outstanding : IsPhraseError(outstanding[k])

\* Every phrase error in the log is followed by its correction.
PhraseErrorsCorrectedLater ==
  \A k \in DOMAIN log :
    (log[k].ev = "enqueue" /\ IsPhraseError(log[k].err))
      => \E n \in (k + 1)..Len(log) : log[n].ev = "fix" /\ log[n].err = log[k].err

\* The walk is at the start of the next phrase span.
AtPhraseStart == InMainLoop /\ next_phrase_start = i

\* The buffer with the characters [from, to) replaced by s.
Replaced(buf, from, to, s) == Slice(buf, 0, from) \o s \o Slice(buf, to, Len(buf))

\* A step from the start of a phrase span.
PhraseStepLaw ==
  AtPhraseStart =>
    LET span == phrase_spans[phrase_idx + 1]
    IN  /\ i' = i + Len(span.original)
        /\ Slice(final_text, i, i') = span.original
        /\ IF Len(outstanding) < cfg.max_outstanding_errors
             THEN /\ editor'.buf = editor.buf \o span.alternative
                  /\ Len(outstanding') = Len(outstanding) + 1
                  /\ SubSeq(outstanding', 1, Len(outstanding)) = outstanding
                  /\ outstanding'[Len(outstanding')].start = Len(editor.buf)
                  /\ outstanding'[Len(outstanding')].wrong = span.alternative
                  /\ outstanding'[Len(outstanding')].correct = span.original
             ELSE /\ editor'.buf = editor.buf \o span.original
                  /\ outstanding' = outstanding

\* A step that corrects a phrase error.
PhraseCorrectionLaw ==
  (Len(outstanding') < Len(outstanding)
     /\ IsPhraseError(outstanding[Len(outstanding)]))
    => LET err == outstanding[Len(outstanding)]
           to == err.start + Len(err.wrong)
       IN  /\ Slice(editor.buf, err.start, to) = err.wrong
           /\ editor'.buf = Replaced(editor.buf, err.start, to, err.correct)

(* C6: at the start of a phrase span with fewer pending errors than the    *)
(* cap, the alternative is typed in place of the original and one error    *)
(* {wrong: alternative, correct: original} is enqueued; with the cap       *)
(* reached the original is typed and nothing is enqueued; either way the   *)
(* walk advances by the length of the original; the correction of a phrase *)
(* error replaces the alternative by the original, and when a plan is      *)
(* returned every enqueued phrase error was corrected by a later step.     *)
PhraseSubstitutionLaws ==
  /\ [][PhraseStepLaw /\ PhraseCorrectionLaw]_vars
  /\ [](PlanReturned => (~PhrasePending /\ PhraseErrorsCorrectedLater))

\* A plan was returned with one phrase alternative typed and corrected and
\* another phrase typed as the original because the cap was reached.
PhraseSubstitutionLawsWitness ==
  /\ pc = "done"
  /\ result = "ok"
  /\ phrase_idx = 2
  /\ \E k \in DOMAIN log : log[k].ev = "fix" /\ IsPhraseError(log[k].err)
  /\ Cardinality({k \in DOMAIN log : log[k].ev = "enqueue"}) = 1

----------------------------------------------------------------------------
(* The entry points on short texts over an alphabet that holds typeable    *)
(* and untypeable characters: only the checks before the first keystroke.  *)

MaxTextLen == 3

\* All sequences over alphabet of at most n characters.
Texts(alphabet, n) == UNION {[1..m -> alphabet] : m \in 0..n}

PreflightAlphabet == {"a", "\n", "\t", "\r", "RSQUO", "EACUTE"}

\* The lists of phrase alternatives handed in for every paragraph.
PreflightItems == {<<>>, <<Alt(<<"a">>, <<"b">>)>>}

\* The planner before its first step.
AtRest ==
  /\ pc = "start"
  /\ phrase_spans = <<>>
  /\ builder = BuilderNew
  /\ editor = EditorDefault
  /\ outstanding = <<>>
  /\ i = 0
  /\ phrase_idx = 0
  /\ last_char = None
  /\ iter_i = 0
  /\ injected = 0
  /\ log = <<>>
  /\ result = None
  /\ sim = NotSimulated
  /\ error = NoError

PreflightInit ==
  /\ final_text \in Texts(PreflightAlphabet, MaxTextLen)
  /\ entry \in Entries
  /\ alternatives \in
       IF entry = "generate_plan_with_phrase_alternatives"
         THEN {[k \in 1..Len(paragraph_byte_spans(final_text)) |-> items] :
                 items \in PreflightItems}
         ELSE {<<>>}
  /\ cfg \in {c \in Configs : /\ c.error_rate_per_word = 0
                              /\ c.word_nav_profile = "Chrome"
                              /\ c.max_outstanding_errors = 0}
  /\ rng_hi = FALSE
  /\ AtRest
  /\ call = NoCall
  /\ ret = NoCall

PreflightSpec == PreflightInit /\ [][Preflight]_vars

\* ASCII 0x20-0x7E, newline and the four smart quotes.
AsciiPrintable == DOMAIN KeyIndex \ {"\n"}
Typeable(c) == c \in AsciiPrintable \cup {"\n"} \cup SmartQuotes

Untypeable(text) == {k \in DOMAIN text : ~Typeable(text[k])}
FirstUntypeable(text) == CHOOSE k \in Untypeable(text) : \A m \in Untypeable(text) : k <= m

\* The 1-based line and column (in characters) of the k-th character.
LineOf(text, k) == 1 + Cardinality({m \in 1..(k - 1) : text[m] = "\n"})
ColOf(text, k) ==
  k - Max(0, CHOOSE n \in 0..(k - 1) :
               /\ n = 0 \/ text[n] = "\n"
               /\ \A m \in (n + 1)..(k - 1) : text[m] /= "\n")

UnicodeOf(c) == IF c = "\t" THEN 9 ELSE IF c = "\r" THEN 13 ELSE 233

\* C11 as stated: once the entry point has looked at the text, plan
\* generation has failed exactly when the text holds an untypeable character.
FailsExactlyOnUntypeable ==
  pc /= "start" => ((pc = "done" /\ result /= "ok") <=> Untypeable(final_text) /= {})

\* C11: through every entry point the unsupported-character error is
\* returned exactly when the text holds a character outside ASCII
\* 0x20-0x7E, newline and the smart quotes, and it names the first such
\* character, its code point and its 1-based line and column.
UntypeableReported ==
  pc /= "start" =>
    IF Untypeable(final_text) = {}
      THEN result /= "unsupported character" /\ error = NoError
      ELSE LET k == FirstUntypeable(final_text)
           IN  /\ pc = "done"
               /\ result = "unsupported character"
               /\ error.c = final_text[k]
               /\ error.code_point = UnicodeOf(final_text[k])
               /\ error.line = LineOf(final_text, k)
               /\ error.col = ColOf(final_text, k)

UntypeableReportedWitness ==
  /\ pc = "done"
  /\ entry = "generate_plan_with_phrase_alternatives"
  /\ final_text = <<"\n", "RSQUO", "\r">>
  /\ error = [c |-> "\r", code_point |-> 13, line |-> 2, col |-> 2]

----------------------------------------------------------------------------
(* validate_phrase_alternatives on short paragraphs and lists of at most   *)
(* two items.                                                              *)

MaxPhraseLen == 2

\* The variables of the planner, which the library calls leave alone.
plannerVars == <<final_text, entry, cfg, alternatives, rng_hi, pc, phrase_spans,
                 builder, editor, outstanding, i, phrase_idx, last_char, iter_i,
                 injected, log, result, sim, error>>

PlannerUnused ==
  /\ final_text = <<>>
  /\ entry = "generate_plan"
  /\ cfg = CHOOSE c \in Configs : TRUE
  /\ alternatives = <<>>
  /\ rng_hi = FALSE
  /\ AtRest

Paragraphs ==
  Texts({"a", "b"}, MaxTextLen) \cup {<<"a", "\t", "b">>, <<"a", " ", "b">>}

Originals ==
  Texts({"a", "b"}, MaxPhraseLen)
    \cup {<<" ", "b">>, <<"a", " ">>, <<"EACUTE">>, <<"a", "\t", "b">>}

AlternativesFor(original) ==
  {<<>>, <<"x">>, <<" ", "x">>, <<"x", " ">>, <<"x", "\t", "x">>, original}

PhraseItems == UNION {{Alt(o, a) : a \in AlternativesFor(o)} : o \in Originals}

\* The second item always has the alternative "x".
ItemLists ==
  {<<>>} \cup {<<it>> : it \in PhraseItems}
    \cup {<<it, Alt(o, <<"x">>)>> : it \in PhraseItems, o \in Originals}
    \cup {<<Alt(o, <<"x">>), it>> : it \in PhraseItems, o \in Originals}

ValidateInit ==
  /\ PlannerUnused
  /\ call \in {[fn |-> "validate_phrase_alternatives", paragraph |-> p, items |-> its] :
                 p \in Paragraphs, its \in ItemLists}
  /\ ret = NoCall

Validate ==
  /\ call.fn = "validate_phrase_alternatives"
  /\ ret = NoCall
  /\ ret' = [fn |-> call.fn, err |-> validate_phrase_alternatives(call.paragraph, call.items)]
  /\ UNCHANGED <<call, plannerVars>>

ValidateSpec == ValidateInit /\ [][Validate]_vars

Validated == ret /= NoCall

\* The positions of the paragraph where pat occurs (0-based).
Positions(paragraph, pat) ==
  {pos \in 0..(Len(paragraph) - Len(pat)) :
     \A k \in 1..Len(pat) : paragraph[pos + k] = pat[k]}

Whitespace == {" ", "\t", "\n", "\r"}
WhitespaceBordered(s) == s /= <<>> /\ (s[1] \in Whitespace \/ s[Len(s)] \in Whitespace)

\* The defects of an item other than the number of its occurrences.
Defective(item) ==
  \/ item.original = <<>>
  \/ item.alternative = <<>>
  \/ WhitespaceBordered(item.original)
  \/ WhitespaceBordered(item.alternative)
  \/ item.alternative = item.original
  \/ Untypeable(item.original) /= {}
  \/ Untypeable(item.alternative) /= {}

WellFormedCall ==
  /\ Untypeable(call.paragraph) = {}
  /\ \A k \in DOMAIN call.items : ~Defective(call.items[k])

ExactlyOnceError == "original must occur exactly once in the paragraph"

\* C12: a call is accepted only if every original occurs at exactly one
\* position of the paragraph, and a call whose items have no other defect
\* fails with the 'exactly once' error when an original occurs nowhere or
\* at two or more positions.
OriginalAtExactlyOnePosition ==
  Validated =>
    LET unique(k) == Cardinality(Positions(call.paragraph, call.items[k].original)) = 1
    IN  /\ ret.err = None => \A k \in DOMAIN call.items : unique(k)
        /\ (WellFormedCall /\ \E k \in DOMAIN call.items : ~unique(k))
             => ret.err = ExactlyOnceError

\* The characters of the paragraph covered by the only occurrence of pat.
RangeOf(paragraph, pat) ==
  LET pos == CHOOSE q \in Positions(paragraph, pat) : TRUE
  IN  (pos + 1)..(pos + Len(pat))

UniqueOriginals ==
  \A k \in DOMAIN call.items :
    Cardinality(Positions(call.paragraph, call.items[k].original)) = 1

RangesShareChar ==
  \E k, m \in DOMAIN call.items :
    /\ k /= m
    /\ RangeOf(call.paragraph, call.items[k].original)
          \cap RangeOf(call.paragraph, call.items[m].original) /= {}

\* C13: for items without another defect the call fails with the
\* 'non-overlapping' error when the ranges of two originals share a
\* character, whatever the order of the items, and succeeds when the ranges
\* are disjoint, touching ranges included.
OverlapRejected ==
  (Validated /\ WellFormedCall /\ UniqueOriginals) =>
    IF RangesShareChar
      THEN ret.err = "original spans must be non-overlapping"
      ELSE ret.err = None

\* An overlap found with the later range first in the list.
OverlapRejectedWitness ==
  /\ Validated /\ WellFormedCall /\ UniqueOriginals
  /\ Len(call.items) = 2
  /\ RangesShareChar
  /\ call.items[1].original = <<"b">>
  /\ call.items[2].original = <<"a", "b">>
  /\ ret.err = "original spans must be non-overlapping"

\* C14: the call fails when the paragraph holds an untypeable character or
\* when any item has an empty original or alternative, an original or
\* alternative bordered by whitespace, an alternative equal to its original,
\* or an untypeable character in its original or alternative.
DefectiveRejected ==
  Validated =>
    ((\/ Untypeable(call.paragraph) /= {}
      \/ \E k \in DOMAIN call.items : Defective(call.items[k]))
       => ret.err /= None)

\* A list rejected for its second item alone.
DefectiveRejectedWitness ==
  /\ Validated
  /\ Len(call.items) = 2
  /\ ~Defective(call.items[1])
  /\ Cardinality(Positions(call.paragraph, call.items[1].original)) = 1
  /\ Cardinality(Positions(call.paragraph, call.items[2].original)) = 1
  /\ call.items[2].alternative = call.items[2].original
  /\ ret.err = "original and alternative must differ"

----------------------------------------------------------------------------
(* ctrl_left and ctrl_right on short buffers: a cursor that is moved by a  *)
(* few calls in a row.                                                     *)

MaxBufLen == 3
MaxCalls == 2

NavAlphabet == {"a", ".", " ", "RSQUO"}
WordPredicates == {"planner", "sim", "always", "never"}

NavInit ==
  /\ PlannerUnused
  /\ call \in {[fn |-> "word_nav", buf |-> b, pred |-> p] :
                 b \in Texts(NavAlphabet, MaxBufLen), p \in WordPredicates}
  /\ ret \in {[cursor |-> c, steps |-> <<>>] : c \in 0..(Len(call.buf) + 1)}

NavStep(fn, to) ==
  /\ call.fn = "word_nav"
  /\ Len(ret.steps) < MaxCalls
  /\ ret' = [cursor |-> to,
             steps |-> Append(ret.steps, [fn |-> fn, from |-> ret.cursor, to |-> to])]
  /\ UNCHANGED <<call, plannerVars>>

CtrlLeft == NavStep("ctrl_left", ctrl_left(call.buf, ret.cursor, call.pred))

CtrlRight == NavStep("ctrl_right", ctrl_right(call.buf, ret.cursor, call.pred))

NavNext == CtrlLeft \/ CtrlRight

NavSpec == NavInit /\ [][NavNext]_vars

\* The class of the k-th character of the buffer of the call (1-based).
ClassAt(k) ==
  LET c == call.buf[k]
  IN  IF c \in {" ", "\t", "\n", "FF", "\r"} THEN "space"
      ELSE IF is_word_char_of(call.pred, c) THEN "word"
      ELSE "other"

Clamped(cursor) == IF cursor > Len(call.buf) THEN Len(call.buf) ELSE cursor

\* The least index from which everything up to idx has the class cls.
RunStart(idx, cls) ==
  CHOOSE q \in 0..idx :
    /\ \A k \in (q + 1)..idx : ClassAt(k) = cls
    /\ q = 0 \/ ClassAt(q) /= cls

\* The greatest index up to which everything from idx has the class cls.
RunEnd(idx, cls) ==
  CHOOSE q \in idx..Len(call.buf) :
    /\ \A k \in (idx + 1)..q : ClassAt(k) = cls
    /\ q = Len(call.buf) \/ ClassAt(q + 1) /= cls

LeftTarget(cursor) ==
  LET afterSpace == RunStart(Clamped(cursor), "space")
  IN  IF afterSpace = 0 THEN 0 ELSE RunStart(afterSpace, ClassAt(afterSpace))

RightTarget(cursor) ==
  LET c == Clamped(cursor)
  IN  IF c = Len(call.buf) THEN c
      ELSE IF ClassAt(c + 1) = "space" THEN RunEnd(c, "space")
      ELSE RunEnd(c, ClassAt(c + 1))

StepsOf(fn) == {k \in DOMAIN ret.steps : ret.steps[k].fn = fn}

Navigating == call.fn = "word_nav"

\* C15: ctrl_left clamps the cursor, skips the whitespace run to its left and
\* then the maximal run of the class of the character then to its left; the
\* result is 0 when the cursor is 0 or only whitespace lies to the left, is
\* never greater than the clamped cursor and is smaller when that is > 0.
CtrlLeftContract ==
  Navigating =>
    \A k \in StepsOf("ctrl_left") :
      LET st == ret.steps[k]
          c == Clamped(st.from)
      IN  /\ st.to = LeftTarget(st.from)
          /\ (c = 0 \/ \A m \in 1..c : ClassAt(m) = "space") => st.to = 0
          /\ st.to <= c
          /\ c > 0 => st.to < c

\* From beyond the end of the buffer, over trailing whitespace and a run of
\* punctuation, to the boundary with the word before it.
CtrlLeftContractWitness ==
  /\ Navigating
  /\ call.buf = <<"a", ".", " ">>
  /\ call.pred = "sim"
  /\ \E k \in StepsOf("ctrl_left") : ret.steps[k].from = 4 /\ ret.steps[k].to = 1

\* C16: ctrl_right clamps the cursor; on whitespace it returns the start of
\* the next non-whitespace run or the length of the buffer, otherwise the
\* end of the maximal run of the class of the character at the cursor; the
\* result is at most the length and greater than a cursor below the length.
CtrlRightContract ==
  Navigating =>
    \A k \in StepsOf("ctrl_right") :
      LET st == ret.steps[k]
      IN  /\ st.to = RightTarget(st.from)
          /\ st.to <= Len(call.buf)
          /\ st.from < Len(call.buf) => st.to > st.from

\* From whitespace to the start of the word that follows, not to its end.
CtrlRightContractWitness ==
  /\ Navigating
  /\ call.buf = <<" ", "a", "a">>
  /\ \E k \in StepsOf("ctrl_right") : ret.steps[k].from = 0 /\ ret.steps[k].to = 1

\* The end of the first run of one class, and the start of the first run
\* that is no whitespace.
FirstClassBoundary ==
  IF call.buf = <<>> THEN 0 ELSE RunEnd(1, ClassAt(1))
FirstNonSpaceStart == RunEnd(0, "space")

RightThenLeft ==
  /\ Len(ret.steps) = 2
  /\ ret.steps[1].fn = "ctrl_right"
  /\ ret.steps[1].from = 0
  /\ ret.steps[2].fn = "ctrl_left"

\* C17: ctrl_left(buf, ctrl_right(buf, 0)) is 0 or the first class boundary
\* of the buffer, and is not beyond the start of the first non-whitespace
\* run.
RightThenLeftNearStart ==
  (Navigating /\ RightThenLeft) =>
    /\ ret.steps[2].from = ret.steps[1].to
    /\ ret.cursor \in {0, FirstClassBoundary}
    /\ ret.cursor <= FirstNonSpaceStart

RightThenLeftNearStartWitness ==
  /\ Navigating /\ RightThenLeft
  /\ call.buf = <<" ", "a", ".">>
  /\ ret.steps[1].to = 1
  /\ ret.cursor = 0

----------------------------------------------------------------------------
(* compatible_ctrl_jump_is_safe on short buffers.                          *)

JumpAlphabet == {"a", "1", " ", "-", ",", "'", "\n"}

JumpInit ==
  /\ PlannerUnused
  /\ call \in UNION {{[fn |-> "compatible_ctrl_jump_is_safe",
                        buf |-> b, from |-> f, to |-> t] :
                         f \in 0..(Len(b) + 1), t \in 0..(Len(b) + 1)} :
                       b \in Texts(JumpAlphabet, MaxBufLen)}
  /\ ret = NoCall

Jump ==
  /\ call.fn = "compatible_ctrl_jump_is_safe"
  /\ ret = NoCall
  /\ ret' = [fn |-> call.fn,
             safe |-> compatible_ctrl_jump_is_safe(call.buf, call.from, call.to),
             back |-> compatible_ctrl_jump_is_safe(call.buf, call.to, call.from)]
  /\ UNCHANGED <<call, plannerVars>>

JumpSpec == JumpInit /\ [][Jump]_vars

Jumped == ret /= NoCall /\ ret.fn = "compatible_ctrl_jump_is_safe"

LetterDigitSpace ==
  Range(LowerLetters) \cup Range(UpperLetters) \cup Range(Digits) \cup {" "}

\* C18: the answer is the same with from and to exchanged, and it is true
\* exactly when the clamped from and to are equal or every character of the
\* span, the one before its start and the one after its end, where these
\* exist, is an ASCII letter, a digit or a space.
JumpSafeContract ==
  Jumped =>
    LET len == Len(call.buf)
        f == IF call.from > len THEN len ELSE call.from
        t == IF call.to > len THEN len ELSE call.to
        start == IF f <= t THEN f ELSE t
        end == IF f <= t THEN t ELSE f
    IN  /\ ret.safe = ret.back
        /\ ret.safe <=>
              (f = t \/ \A k \in start..(end + 1) :
                          (k >= 1 /\ k <= len) => call.buf[k] \in LetterDigitSpace)

\* A leftward jump over a letter that has a hyphen before it.
JumpSafeContractWitness ==
  /\ Jumped
  /\ call.buf = <<"a", "-", "a">>
  /\ call.from = 4
  /\ call.to = 2
  /\ ~ret.safe

----------------------------------------------------------------------------
(* simulate_typed_text turn by turn: a stream that starts with the key     *)
(* presses of a short text and goes on with a few actions of any kind.     *)

MaxTail == 3

\* tests/sim_ctrl_word_nav.rs: one key press per character.
key_presses_for_text(text) ==
  [k \in DOMAIN text |-> KeyAction(keystroke_for_output_char(text[k]).keycode, "pressed")]

SimActions ==
  {KeyAction(KEY_LEFT, "pressed"), KeyAction(KEY_LEFT, "released"),
   KeyAction(KEY_RIGHT, "pressed"), KeyAction(KEY_BACKSPACE, "pressed"),
   KeyAction(KEY_LEFTCTRL, "pressed"), KeyAction(KEY_LEFTCTRL, "released"),
   KeyAction(char_to_keystroke("a").keycode, "pressed"),
   WaitAction(10), ModifiersAction(ctrl_mask)}

\* The loop has gone through the key presses of the text.
SimInit ==
  /\ PlannerUnused
  /\ call \in {[fn |-> "simulate_typed_text", typed |-> Len(t),
                 actions |-> key_presses_for_text(t)] :
                 t \in Texts({"a", " "}, MaxBufLen)}
  /\ ret = [s |-> sim_run(SimNew, call.actions, 1, Len(call.actions)), prev |-> SimNew]

\* The next turn of the loop, on the action a that follows in the stream.
SimTurn ==
  /\ call.fn = "simulate_typed_text"
  /\ Len(call.actions) < call.typed + MaxTail
  /\ ret.s.err = None
  /\ \E a \in SimActions :
       /\ call' = [call EXCEPT !.actions = Append(@, a)]
       /\ ret' = [s |-> sim_step(ret.s, a), prev |-> ret.s]
  /\ UNCHANGED plannerVars

SimSpec == SimInit /\ [][SimTurn]_vars

Turned == call.fn = "simulate_typed_text" /\ Len(call.actions) > call.typed

LastAction == call.actions[Len(call.actions)]

IsPress(a, keycode) == a.type = "key" /\ a.keycode = keycode /\ a.state = "pressed"
IsRelease(a, keycode) == a.type = "key" /\ a.keycode = keycode /\ a.state = "released"

\* A press of Left-Ctrl among the first n actions with no release after it.
CtrlHeldAfter(n) ==
  \E j \in 1..n :
    /\ IsPress(call.actions[j], KEY_LEFTCTRL)
    /\ \A m \in (j + 1)..n : ~IsRelease(call.actions[m], KEY_LEFTCTRL)

SameEditor(s, t) == s.buf = t.buf /\ s.cursor = t.cursor

\* C19: a press of Left or Right moves the cursor by ctrl_left or ctrl_right
\* exactly when a press of Left-Ctrl with no later release precedes it, and
\* by one character otherwise; Backspace deletes the character left of the
\* cursor; Wait, Modifiers and releases of other keys leave the editor alone.
SimTurnContract ==
  Turned =>
    LET a == LastAction
        held == CtrlHeldAfter(Len(call.actions) - 1)
        before == ret.prev
        after == ret.s
        len == Len(before.buf)
    IN  /\ IsPress(a, KEY_LEFT) =>
              /\ after.buf = before.buf
              /\ after.cursor =
                    IF held THEN ctrl_left(before.buf, before.cursor, "sim")
                    ELSE IF before.cursor > 0 THEN before.cursor - 1 ELSE 0
        /\ IsPress(a, KEY_RIGHT) =>
              /\ after.buf = before.buf
              /\ after.cursor =
                    IF held THEN ctrl_right(before.buf, before.cursor, "sim")
                    ELSE IF before.cursor < len THEN before.cursor + 1 ELSE len
        /\ (IsPress(a, KEY_BACKSPACE) /\ before.cursor > 0) =>
              /\ after.cursor = before.cursor - 1
              /\ after.buf = [k \in 1..(len - 1) |->
                                IF k < before.cursor THEN before.buf[k]
                                ELSE before.buf[k + 1]]
        /\ (IsPress(a, KEY_BACKSPACE) /\ before.cursor = 0) => SameEditor(after, before)
        /\ (a.type \in {"wait", "modifiers"} \/ IsRelease(a, KEY_LEFT))
              => SameEditor(after, before)

\* Ctrl+Left over the last word, then Backspace: the space before it goes.
SimTurnContractWitness ==
  /\ Turned
  /\ call.typed = 3
  /\ Len(call.actions) = 6
  /\ IsPress(call.actions[4], KEY_LEFTCTRL)
  /\ IsPress(call.actions[5], KEY_LEFT)
  /\ IsPress(LastAction, KEY_BACKSPACE)
  /\ ret.prev.buf = <<"a", " ", "a">>
  /\ ret.prev.cursor = 2
  /\ ret.s.buf = <<"a", "a">>
  /\ ret.s.cursor = 1

----------------------------------------------------------------------------
(* trace.rs: the console trace computed from an action stream.             *)

is_edit_key(keycode) ==
  keycode \in {KEY_LEFT, KEY_RIGHT, KEY_UP, KEY_DOWN, KEY_HOME, KEY_END,
               KEY_BACKSPACE, KEY_DELETE}

\* trace.rs has its own is_word_char, with the body of the simulator's.
trace_is_word_char(c) == is_word_char_of("sim", c)

escape_char(c) ==
  CASE c = "\\" -> <<"\\", "\\">>
    [] c = "\"" -> <<"\\", "\"">>
    [] c = "\n" -> <<"\\", "n">>
    [] c = "\r" -> <<"\\", "r">>
    [] c = "\t" -> <<"\\", "t">>
    [] OTHER -> <<c>>

escape_for_log(s) == Flatten([k \in DOMAIN s |-> escape_char(s[k])])

\* The lines: format!("Typing \"{}\"...") and
\* format!("Replace \"{}\" with \"{}\"...").
TypingLine(text) == [kind |-> "Typing", text |-> escape_for_log(text), with |-> <<>>]
ReplaceLine(wrong, correct) ==
  [kind |-> "Replace", text |-> escape_for_log(wrong), with |-> escape_for_log(correct)]

TraceEvent(action_index, line) == [action_index |-> action_index, line |-> line]

\* Option<ScheduledCorrection>: open is FALSE for None.
NoCorrection ==
  [open |-> FALSE, start_action_index |-> 0, deleted_backspace |-> <<>>,
   deleted_delete |-> <<>>, inserted |-> <<>>, left_end |-> FALSE]

\* TracePlanner::new()
TraceNew ==
  [buf |-> <<>>, cursor |-> 0, shift_down |-> FALSE, ctrl_down |-> FALSE,
   typing_run_start_action |-> NoIndex, typing_run |-> <<>>,
   correction |-> NoCorrection, events |-> <<>>]

Reverse(s) == [k \in DOMAIN s |-> s[Len(s) + 1 - k]]

\* deleted_string with the backspaced characters in the order of deletion.
deleted_string_in_deletion_order(c) == c.deleted_backspace \o c.deleted_delete

deleted_string(c) == Reverse(c.deleted_backspace) \o c.deleted_delete

has_replace(c) ==
  (c.deleted_backspace /= <<>> \/ c.deleted_delete /= <<>>) /\ c.inserted /= <<>>

finish_correction(t) ==
  IF ~t.correction.open THEN t
  ELSE IF ~has_replace(t.correction) THEN [t EXCEPT !.correction = NoCorrection]
  ELSE [t EXCEPT
          !.correction = NoCorrection,
          !.events = Append(@, TraceEvent(
                       t.correction.start_action_index,
                       ReplaceLine(deleted_string(t.correction), t.correction.inserted)))]

\* maybe_finish_correction_before_key with one rule for every correction:
\* at the end of the buffer, before an edit key or a non-word character.
maybe_finish_correction_at_end_only(t, keycode, decoded) ==
  LET at_end == t.cursor = Len(t.buf)
      should_finish ==
        at_end /\ (is_edit_key(keycode)
                     \/ (decoded /= None /\ ~trace_is_word_char(decoded)))
  IN  IF ~t.correction.open THEN t
      ELSE IF should_finish THEN finish_correction(t)
      ELSE t

\* decoded is the decoded character or None.
maybe_finish_correction_before_key(t, keycode, decoded) ==
  LET at_end == t.cursor = Len(t.buf)
      should_finish ==
        IF t.correction.left_end
          THEN at_end /\ (is_edit_key(keycode) \/ decoded /= None)
        ELSE IF has_replace(t.correction)
          THEN is_edit_key(keycode) \/ (decoded /= None /\ ~trace_is_word_char(decoded))
        ELSE FALSE
  IN  IF ~t.correction.open THEN t
      ELSE IF should_finish THEN finish_correction(t)
      ELSE t

flush_typing_run_on_edit(t) ==
  IF t.typing_run_start_action = NoIndex THEN [t EXCEPT !.typing_run = <<>>]
  ELSE IF t.typing_run = <<>> THEN [t EXCEPT !.typing_run_start_action = NoIndex]
  ELSE [t EXCEPT
          !.events = Append(@, TraceEvent(t.typing_run_start_action,
                                          TypingLine(t.typing_run))),
          !.typing_run = <<>>,
          !.typing_run_start_action = NoIndex]

\* The edit key applied to the editor and to the open correction.
trace_edit(t, keycode) ==
  LET e == [buf |-> t.buf, cursor |-> t.cursor]
      moved(n) == [t EXCEPT !.cursor = n]
  IN  CASE keycode = KEY_LEFT ->
             IF t.ctrl_down THEN moved(ctrl_left(t.buf, t.cursor, "sim"))
             ELSE moved(move_left(e).cursor)
        [] keycode = KEY_RIGHT ->
             IF t.ctrl_down THEN moved(ctrl_right(t.buf, t.cursor, "sim"))
             ELSE moved(move_right(e).cursor)
        [] keycode = KEY_HOME -> moved(0)
        [] keycode = KEY_END -> moved(Len(t.buf))
        [] keycode = KEY_BACKSPACE ->
             IF t.cursor = 0 THEN t
             ELSE [t EXCEPT !.buf = editor_backspace(e).buf,
                            !.cursor = editor_backspace(e).cursor,
                            !.correction.deleted_backspace = Append(@, t.buf[t.cursor])]
        [] keycode = KEY_DELETE ->
             IF t.cursor >= Len(t.buf) THEN t
             ELSE [t EXCEPT !.buf = sim_delete(e).buf,
                            !.correction.deleted_delete = Append(@, t.buf[t.cursor + 1])]
        [] OTHER -> t

handle_key_pressed(t, action_index, keycode) ==
  LET decoded == IF t.ctrl_down \/ <<keycode, t.shift_down>> \notin DOMAIN KeystrokeMap
                   THEN None
                   ELSE KeystrokeMap[<<keycode, t.shift_down>>]
      t1 == maybe_finish_correction_before_key(t, keycode, decoded)
      t2 == flush_typing_run_on_edit(t1)
      t3 == IF t2.correction.open THEN t2
            ELSE [t2 EXCEPT !.correction =
                    [NoCorrection EXCEPT !.open = TRUE,
                                         !.start_action_index = action_index,
                                         !.left_end = t2.cursor < Len(t2.buf)]]
      t4 == trace_edit(t3, keycode)
      t5 == [t1 EXCEPT !.buf = insert_char([buf |-> t1.buf, cursor |-> t1.cursor],
                                           decoded).buf,
                       !.cursor = t1.cursor + 1]
  IN  IF keycode \in {KEY_LEFTSHIFT, KEY_RIGHTSHIFT} THEN [t EXCEPT !.shift_down = TRUE]
      ELSE IF keycode = KEY_LEFTCTRL THEN [t EXCEPT !.ctrl_down = TRUE]
      ELSE IF is_edit_key(keycode)
        THEN [t4 EXCEPT !.correction.left_end = @ \/ t4.cursor < Len(t4.buf)]
      ELSE IF decoded = None THEN t1
      ELSE IF t5.correction.open
        THEN [t5 EXCEPT !.correction.inserted = Append(@, decoded),
                        !.correction.left_end = @ \/ t5.cursor < Len(t5.buf)]
      ELSE IF t5.cursor = Len(t5.buf)
        THEN [t5 EXCEPT !.typing_run_start_action =
                          IF t5.typing_run = <<>> THEN action_index ELSE @,
                        !.typing_run = Append(@, decoded)]
      ELSE t5

handle_key_released(t, keycode) ==
  IF keycode \in {KEY_LEFTSHIFT, KEY_RIGHTSHIFT} THEN [t EXCEPT !.shift_down = FALSE]
  ELSE IF keycode = KEY_LEFTCTRL THEN [t EXCEPT !.ctrl_down = FALSE]
  ELSE t

observe_action(t, action_index, a) ==
  IF a.type /= "key" THEN t
  ELSE IF a.state = "pressed" THEN handle_key_pressed(t, action_index, a.keycode)
  ELSE handle_key_released(t, a.keycode)

EventIndex(ev) == ev.action_index

\* What plan_console_trace returns for a stream that the tracer has gone
\* through: finish(), then the stable sort by action_index.
trace_events(t) == SortedBy(finish_correction(t).events, EventIndex)

MaxTrace == 5

TraceActions ==
  {KeyAction(char_to_keystroke("a").keycode, "pressed"),
   KeyAction(char_to_keystroke("\n").keycode, "pressed"),
   KeyAction(KEY_BACKSPACE, "pressed"),
   KeyAction(KEY_LEFT, "pressed"), KeyAction(KEY_RIGHT, "pressed"),
   KeyAction(KEY_LEFTCTRL, "pressed"), KeyAction(KEY_LEFTCTRL, "released"),
   WaitAction(10)}

TraceInit ==
  /\ PlannerUnused
  /\ call = [fn |-> "plan_console_trace", actions |-> <<>>]
  /\ ret = [t |-> TraceNew, events |-> <<>>]

\* The stream is one action longer: the tracer observes it, and events is
\* what plan_console_trace returns for the stream so far.
TraceTurn ==
  /\ call.fn = "plan_console_trace"
  /\ Len(call.actions) < MaxTrace
  /\ \E a \in TraceActions :
       LET t == observe_action(ret.t, Len(call.actions), a)
       IN  /\ call' = [call EXCEPT !.actions = Append(@, a)]
           /\ ret' = [t |-> t, events |-> trace_events(t)]
  /\ UNCHANGED plannerVars

TraceSpec == TraceInit /\ [][TraceTurn]_vars

Tracing == call.fn = "plan_console_trace"

\* A plain editor that goes through the first n actions of the stream and
\* collects the runs of characters appended at the end of the buffer: a run
\* is closed, and counted, by the press of an edit key.
RECURSIVE Runs(_)
Runs(n) ==
  IF n = 0
    THEN [buf |-> <<>>, cursor |-> 0, shift |-> FALSE, ctrl |-> FALSE,
          first |-> 0, run |-> <<>>, closed |-> <<>>]
  ELSE
    LET w == Runs(n - 1)
        a == call.actions[n]
        len == Len(w.buf)
        typed == IF a.type = "key" /\ ~w.ctrl
                      /\ <<a.keycode, w.shift>> \in DOMAIN KeystrokeMap
                   THEN KeystrokeMap[<<a.keycode, w.shift>>] ELSE None
        flushed == IF w.run = <<>> THEN w
                   ELSE [w EXCEPT !.closed = Append(@, [first |-> w.first, run |-> w.run]),
                                  !.run = <<>>]
        target ==
          CASE a.keycode = KEY_LEFT ->
                 IF w.ctrl THEN ctrl_left(w.buf, w.cursor, "sim")
                 ELSE IF w.cursor > 0 THEN w.cursor - 1 ELSE 0
            [] a.keycode = KEY_RIGHT ->
                 IF w.ctrl THEN ctrl_right(w.buf, w.cursor, "sim")
                 ELSE IF w.cursor < len THEN w.cursor + 1 ELSE len
            [] a.keycode = KEY_HOME -> 0
            [] a.keycode = KEY_END -> len
            [] a.keycode = KEY_BACKSPACE -> IF w.cursor > 0 THEN w.cursor - 1 ELSE 0
            [] OTHER -> w.cursor
        removed ==
          IF a.keycode = KEY_BACKSPACE /\ w.cursor > 0 THEN w.cursor
          ELSE IF a.keycode = KEY_DELETE /\ w.cursor < len THEN w.cursor + 1
          ELSE 0
    IN  IF a.type /= "key" THEN w
        ELSE IF a.keycode \in {KEY_LEFTSHIFT, KEY_RIGHTSHIFT}
          THEN [w EXCEPT !.shift = (a.state = "pressed")]
        ELSE IF a.keycode = KEY_LEFTCTRL THEN [w EXCEPT !.ctrl = (a.state = "pressed")]
        ELSE IF a.state = "released" THEN w
        ELSE IF is_edit_key(a.keycode)
          THEN [flushed EXCEPT
                  !.buf = [k \in 1..(len - (IF removed > 0 THEN 1 ELSE 0)) |->
                             IF removed > 0 /\ k >= removed THEN w.buf[k + 1]
                             ELSE w.buf[k]],
                  !.cursor = target]
        ELSE IF typed = None THEN w
        ELSE [w EXCEPT
                !.buf = [k \in 1..(len + 1) |->
                           IF k <= w.cursor THEN w.buf[k]
                           ELSE IF k = w.cursor + 1 THEN typed
                           ELSE w.buf[k - 1]],
                !.cursor = w.cursor + 1,
                !.first = IF w.cursor = len /\ w.run = <<>> THEN n - 1 ELSE @,
                !.run = IF w.cursor = len THEN Append(@, typed) ELSE @]

\* The text between the quotes of the line.
RECURSIVE Escaped(_)
Escaped(s) ==
  IF s = <<>> THEN <<>>
  ELSE (IF Head(s) = "\n" THEN <<"\\", "n">>
        ELSE IF Head(s) = "\"" THEN <<"\\", "\"">>
        ELSE IF Head(s) = "\\" THEN <<"\\", "\\">>
        ELSE <<Head(s)>>) \o Escaped(Tail(s))

TypingEvents == SelectSeq(ret.events, LAMBDA ev : ev.line.kind = "Typing")

\* C20: the Typing events of the trace are, in order, one per run of
\* characters appended at the end of the buffer and closed by an edit key,
\* with the index of the first key press of the run and its escaped text; a
\* run that is still open when the stream ends has no event.
TypingEventPerRun ==
  Tracing =>
    LET closed == Runs(Len(call.actions)).closed
    IN  TypingEvents =
          [k \in DOMAIN closed |->
             [action_index |-> closed[k].first,
              line |-> [kind |-> "Typing", text |-> Escaped(closed[k].run),
                        with |-> <<>>]]]

\* The correction episodes of the first n actions, on the plain editor of
\* Runs: an episode opens at the press of an edit key when none is open and
\* collects what Backspace and Delete remove and what is typed meanwhile. It
\* is over before a key press when it has left the end of the buffer, the
\* cursor is back there and the key is an edit key or types a character;
\* or when it never left the end, has removed and typed something, and the
\* key is an edit key or types a character that is no word character.
NoEpisode ==
  [open |-> FALSE, first |-> 0, back |-> <<>>, forward |-> <<>>, typed |-> <<>>,
   left |-> FALSE]

Replaces(ep) == (ep.back /= <<>> \/ ep.forward /= <<>>) /\ ep.typed /= <<>>

RECURSIVE Episodes(_)
Episodes(n) ==
  IF n = 0 THEN [ep |-> NoEpisode, over |-> <<>>]
  ELSE
    LET h == Episodes(n - 1)
        w == Runs(n - 1)
        v == Runs(n)
        a == call.actions[n]
        press == /\ a.type = "key"
                 /\ a.state = "pressed"
                 /\ a.keycode \notin {KEY_LEFTSHIFT, KEY_RIGHTSHIFT, KEY_LEFTCTRL}
        edit == press /\ is_edit_key(a.keycode)
        types == press /\ ~edit /\ Len(v.buf) = Len(w.buf) + 1
        typed == IF types THEN v.buf[v.cursor] ELSE None
        ends == /\ h.ep.open
                /\ IF h.ep.left THEN w.cursor = Len(w.buf) /\ (edit \/ types)
                   ELSE IF Replaces(h.ep)
                     THEN edit \/ (types /\ ~(is_ascii_alphanumeric(typed) \/ typed = "'"))
                   ELSE FALSE
        over == IF ends /\ Replaces(h.ep) THEN Append(h.over, h.ep) ELSE h.over
        ep0 == IF ends THEN NoEpisode ELSE h.ep
        ep1 == IF edit /\ ~ep0.open
                 THEN [NoEpisode EXCEPT !.open = TRUE, !.first = n - 1,
                                        !.left = w.cursor < Len(w.buf)]
                 ELSE ep0
        gone == Len(v.buf) < Len(w.buf)
        ep2 == [ep1 EXCEPT
                  !.back = IF edit /\ gone /\ a.keycode = KEY_BACKSPACE
                             THEN Append(@, w.buf[w.cursor]) ELSE @,
                  !.forward = IF edit /\ gone /\ a.keycode = KEY_DELETE
                                THEN Append(@, w.buf[w.cursor + 1]) ELSE @,
                  !.typed = IF types THEN Append(@, typed) ELSE @,
                  !.left = @ \/ v.cursor < Len(v.buf)]
    IN  IF ~press THEN h
        ELSE [ep |-> IF ep1.open THEN ep2 ELSE ep1, over |-> over]

\* The episodes of the whole stream that removed and typed something.
ReplaceEpisodes ==
  LET h == Episodes(Len(call.actions))
  IN  IF h.ep.open /\ Replaces(h.ep) THEN Append(h.over, h.ep) ELSE h.over

ReplaceEvents == SelectSeq(ret.events, LAMBDA ev : ev.line.kind = "Replace")

KeyStates(actions, keycode) ==
  LET events == SelectSeq(actions, LAMBDA a : IsKeyOf(a, {keycode}))
  IN  [k \in DOMAIN events |-> events[k].state]

\* Presses and releases alternate, the first being a press.
Alternates(states) ==
  \A k \in DOMAIN states :
    states[k] = IF k % 2 = 1 THEN "pressed" ELSE "released"

\* C23: set_shift(d) and set_ctrl(d) on a builder that already tracks d
\* return the builder as it is, no action appended; and the actions built so
\* far never hold two presses or two releases of Left-Shift in a row among
\* the Left-Shift events, nor of Left-Ctrl among the Left-Ctrl events.
ModifierSettersIdempotent ==
  /\ \A r \in BOOLEAN :
       /\ set_shift(builder, builder.shift_down, r) = builder
       /\ set_ctrl(builder, builder.ctrl_down, r) = builder
  /\ Alternates(KeyStates(builder.actions, KEY_LEFTSHIFT))
  /\ Alternates(KeyStates(builder.actions, KEY_LEFTCTRL))

\* A plan that pressed Left-Shift twice and Left-Ctrl at least once.
ModifierSettersIdempotentWitness ==
  /\ PlanReturned
  /\ Len(KeyStates(builder.actions, KEY_LEFTSHIFT)) >= 4
  /\ Len(KeyStates(builder.actions, KEY_LEFTCTRL)) >= 2

----------------------------------------------------------------------------
(* Configurations inside and outside the bounds, through every entry point. *)

F64s == {NaN, PosInf, NegInf, Num(0 - 1), Num(0), Num(40), Num(60)}

ConfigItems ==
  [wpm_min : F64s,
   wpm_max : F64s,
   error_rate_per_word : {0 - 1, 0, 101},
   word_variant_share : {0 - 1, 35, 101},
   immediate_fix_rate : {0 - 1, 100, 101},
   word_nav_profile : {"Chrome"},
   max_outstanding_errors : {MaxCap},
   stop_corrections_after_progress : {0 - 1, 88, 101},
   review_pause_ms_min : {1, 2},
   review_pause_ms_max : {1},
   no_revision : BOOLEAN]

ConfigInit ==
  /\ \E sc \in {s \in Scenarios : s.text \in {TextTwoPhrases, TextTab}} :
       /\ final_text = sc.text
       /\ entry \in Entries
       /\ alternatives =
            IF entry = "generate_plan_with_phrase_alternatives" THEN sc.alts ELSE <<>>
  /\ cfg \in ConfigItems
  /\ rng_hi = FALSE
  /\ AtRest
  /\ call = NoCall
  /\ ret = NoCall

ConfigSpec == ConfigInit /\ [][Preflight]_vars

Finite(x) == x \in {Num(v) : v \in (0 - 1)..60}

InUnitRange(p) == p \in 0..100

\* Some bound of the configuration is broken.
OutOfBounds(c) ==
  \/ ~Finite(c.wpm_min) \/ ~Finite(c.wpm_max)
  \/ c.wpm_min.v <= 0 \/ c.wpm_max.v <= 0
  \/ c.wpm_min.v > c.wpm_max.v
  \/ ~InUnitRange(c.error_rate_per_word)
  \/ ~InUnitRange(c.word_variant_share)
  \/ ~InUnitRange(c.immediate_fix_rate)
  \/ ~InUnitRange(c.stop_corrections_after_progress)
  \/ c.review_pause_ms_min > c.review_pause_ms_max

ConfigErrors ==
  {"wpm_min must be finite", "wpm_max must be finite",
   "wpm_min and wpm_max must be > 0", "wpm_min must be <= wpm_max",
   "error_rate_per_word must be between 0.0 and 1.0",
   "word_variant_share must be between 0.0 and 1.0",
   "immediate_fix_rate must be between 0.0 and 1.0",
   "stop_corrections_after_progress must be between 0.0 and 1.0",
   "review_pause_ms_min must be <= review_pause_ms_max"}

\* C24: once the entry point has looked at its arguments, a configuration
\* with a bound broken has made it return an error, no plan begun; and a
\* configuration inside all bounds has produced no configuration error.
ConfigOutOfBoundsRejected ==
  pc /= "start" =>
    /\ OutOfBounds(cfg) =>
         pc = "done" /\ result /= None /\ result /= "ok" /\ builder = BuilderNew
    /\ ~OutOfBounds(cfg) => result \notin ConfigErrors

\* generate_plan_with_phrase_alternatives, text and alternatives in order,
\* refused for the review pause bounds alone.
ConfigOutOfBoundsRejectedWitness ==
  /\ pc = "done"
  /\ entry = "generate_plan_with_phrase_alternatives"
  /\ cfg.review_pause_ms_min > cfg.review_pause_ms_max
  /\ result = "review_pause_ms_min must be <= review_pause_ms_max"

----------------------------------------------------------------------------
(* Two runs on the same arguments: the second starts once the first has     *)
(* returned its plan, which ret keeps together with the draws, which show   *)
(* in the history (which words went wrong and how, which errors were        *)
(* corrected where); the generator's seed is rng_hi in both.                *)

Rerun ==
  /\ pc = "done"
  /\ result = "ok"
  /\ ret.fn = None
  /\ ret' = [fn |-> "generate_plan", actions |-> builder.actions,
             wpm_target |-> wpm_target, log |-> log]
  /\ pc' = "start"
  /\ phrase_spans' = <<>>
  /\ builder' = BuilderNew
  /\ editor' = EditorDefault
  /\ outstanding' = <<>>
  /\ i' = 0
  /\ phrase_idx' = 0
  /\ last_char' = None
  /\ iter_i' = 0
  /\ injected' = 0
  /\ log' = <<>>
  /\ result' = None
  /\ UNCHANGED <<sim, error, call, final_text, entry, cfg, alternatives, rng_hi>>

TwinNext == Next \/ Rerun

\* The runs that draw, on the shorter texts: errors injected, no error or
\* as many as the bound allows outstanding.
TwinInit ==
  /\ Init
  /\ final_text \in {TextTwoPhrases, TextHelloWorld}
  /\ cfg.error_rate_per_word > 0
  /\ cfg.max_outstanding_errors \in {0, MaxCap}
  /\ cfg.word_nav_profile = "Chrome"
  /\ ~cfg.no_revision
  /\ ~rng_hi

TwinSpec == TwinInit /\ [][TwinNext]_vars

SecondRunReturned == pc = "done" /\ ret.fn = "generate_plan"

----------------------------------------------------------------------------
(* The outstanding errors against the simulated buffer.                     *)

\* Between tokens, or about to apply a correction.
BetweenTokens == pc \in {"main", "fix", "review"}

\* The end (exclusive) of the range of a pending error in the buffer.
RangeEnd(err) == err.start + Len(err.wrong)

\* Whether the buffer character at 0-based position p lies in a pending range.
InPendingRange(p) ==
  \E k \in DOMAIN outstanding :
    outstanding[k].start <= p /\ p < RangeEnd(outstanding[k])

\* The 0-based position in the final text of the buffer character at p: each
\* pending range before p stands for its correct text.
RECURSIVE ShiftBefore(_, _)
ShiftBefore(p, k) ==
  IF k = 0 THEN 0
  ELSE ShiftBefore(p, k - 1)
       + (IF RangeEnd(outstanding[k]) <= p
            THEN Len(outstanding[k].correct) - Len(outstanding[k].wrong)
            ELSE 0)

FinalPosition(p) == p + ShiftBefore(p, Len(outstanding))

\* C25: between tokens and before a correction the pending errors are in
\* strictly increasing order of start, their ranges [start, start +
\* len(wrong)) are pairwise disjoint and inside the buffer, the buffer holds
\* the wrong text of each error at its range, and every buffer character
\* outside the ranges is the character of the final text at its place.
OutstandingStackInvariant ==
  BetweenTokens =>
    /\ \A k \in 1..(Len(outstanding) - 1) :
         /\ outstanding[k].start < outstanding[k + 1].start
         /\ RangeEnd(outstanding[k]) <= outstanding[k + 1].start
    /\ \A k \in DOMAIN outstanding :
         /\ RangeEnd(outstanding[k]) <= Len(editor.buf)
         /\ Slice(editor.buf, outstanding[k].start, RangeEnd(outstanding[k]))
              = outstanding[k].wrong
    /\ \A p \in 0..(Len(editor.buf) - 1) :
         ~InPendingRange(p) =>
           /\ FinalPosition(p) < Len(final_text)
           /\ editor.buf[p + 1] = final_text[FinalPosition(p) + 1]

\* An error of another length than its correct text pending after a token,
\* with characters of the final text typed behind it.
OutstandingStackInvariantWitness ==
  /\ pc = "fix"
  /\ outstanding /= <<>>
  /\ Len(outstanding[1].wrong) /= Len(outstanding[1].correct)
  /\ RangeEnd(outstanding[1]) < Len(editor.buf)

----------------------------------------------------------------------------
(* Every enqueued error is corrected, once, and the planner returns.        *)

Occurrences(ev, err) ==
  Cardinality({k \in DOMAIN log : log[k].ev = ev /\ log[k].err = err})

\* The error enqueued at k is corrected once, later, and was enqueued once.
CorrectedOnce(k) ==
  /\ Occurrences("enqueue", log[k].err) = 1
  /\ Occurrences("fix", log[k].err) = 1
  /\ \E n \in (k + 1)..Len(log) : log[n].ev = "fix" /\ log[n].err = log[k].err

\* What is left to do: it bounds the number of steps to the return.
StepsLeft ==
  CASE pc = "start" -> 3 * Len(final_text) + cfg.max_outstanding_errors + 7
    [] pc = "main" -> 3 * (Len(final_text) - i) + cfg.max_outstanding_errors + 5
    [] pc = "fix" -> 3 * (Len(final_text) - i) + cfg.max_outstanding_errors + 6
    [] pc = "review" -> Len(outstanding) + 3
    [] pc = "straight" -> 3
    [] pc = "finalize" -> 2
    [] pc = "done" -> 1
    [] OTHER -> 0

Terminating == StepsLeft >= 0 /\ StepsLeft' < StepsLeft

NoCorrectionFails == result /= "internal error"

AllCorrectedAtReturn ==
  (pc \in {"finalize", "done", "simulated"} /\ result \in {None, "ok"}) =>
    /\ outstanding = <<>>
    /\ \A k \in DOMAIN log : log[k].ev = "enqueue" => CorrectedOnce(k)

\* C26: every step of plan generation brings the return nearer, so that the
\* generation terminates; no correction fails with "correction target after
\* cursor"; and at finalization no error is outstanding, every enqueued
\* error having been corrected exactly once.
EveryErrorCorrectedOnce ==
  /\ [][Terminating]_vars
  /\ []NoCorrectionFails
  /\ []AllCorrectedAtReturn

\* A plan returned after two errors were enqueued, one corrected after a
\* token and one in the review.
EveryErrorCorrectedOnceWitness ==
  /\ PlanReturned
  /\ Cardinality({k \in DOMAIN log : log[k].ev = "enqueue"}) = 2
  /\ \E k \in DOMAIN log : log[k].ev = "fix" /\ log[k].phase = "main"
  /\ \E k \in DOMAIN log : log[k].ev = "fix" /\ log[k].phase = "review"

----------------------------------------------------------------------------
(* The cursor between tokens.                                               *)

LastLogged(ev) == log /= <<>> /\ log[Len(log)].ev = ev

\* C27: at the start of every iteration of the main pass, after the token
\* of an iteration is typed (an immediate correction included), after every
\* opportunistic correction and after every correction of the review, the
\* simulated cursor is at the end of the buffer.
CursorAtEndBetweenTokens ==
  /\ pc \in {"main", "fix", "review"} => editor.cursor = Len(editor.buf)
  /\ (LastLogged("fix") \/ LastLogged("immediate")) =>
       editor.cursor = Len(editor.buf)

\* Back at the end after a correction that had to walk left to its error.
CursorAtEndBetweenTokensWitness ==
  /\ pc = "main"
  /\ LastLogged("fix")
  /\ log[Len(log)].err.start + Len(log[Len(log)].err.correct) < Len(editor.buf)
  /\ HasKeyEvent(builder.actions, {KEY_LEFT})
  /\ editor.cursor = Len(editor.buf)

----------------------------------------------------------------------------
(* The forced correction at the bound on the outstanding errors.            *)

MostRecent == outstanding[Len(outstanding)]

\* A token has been typed, as many errors are pending as allowed, and the
\* most recent has no constraint.
AtCapAfterToken ==
  /\ pc = "fix"
  /\ outstanding /= <<>>
  /\ Len(outstanding) = cfg.max_outstanding_errors
  /\ MostRecent.constraint = "None"

\* The most recent error is corrected in this step, before any other token.
MostRecentCorrected ==
  /\ pc' = "main"
  /\ i' = i
  /\ outstanding' = SubSeq(outstanding, 1, Len(outstanding) - 1)
  /\ Len(log') = Len(log) + 1
  /\ log'[Len(log')].ev = "fix"
  /\ log'[Len(log')].err = MostRecent
  /\ Slice(editor'.buf, MostRecent.start, MostRecent.start + Len(MostRecent.correct))
       = MostRecent.correct

ForceDrain == [][AtCapAfterToken => MostRecentCorrected]_vars

IterationStart == pc = "main" /\ i < Len(final_text)

\* C28 as stated: the forced correction, and at the start of every iteration
\* fewer errors pending than allowed unless the most recent is a phrase
\* substitution.
ForceDrainKeepsPendingBelowCap ==
  /\ ForceDrain
  /\ [](IterationStart =>
          \/ Len(outstanding) < cfg.max_outstanding_errors
          \/ (outstanding /= <<>> /\ IsPhraseError(MostRecent)))

\* C28: after a token, with as many errors pending as allowed and the most
\* recent without constraint, the next step corrects the most recent,
\* whatever its age, the progress and the last character typed; hence at
\* the start of every iteration fewer errors are pending than allowed,
\* unless the most recent is a phrase substitution or none is allowed, in
\* which case none is pending.
ForceDrainKeepsPendingBelowCapOrNone ==
  /\ ForceDrain
  /\ [](IterationStart =>
          \/ Len(outstanding) < cfg.max_outstanding_errors
          \/ (outstanding /= <<>> /\ IsPhraseError(MostRecent))
          \/ (cfg.max_outstanding_errors = 0 /\ outstanding = <<>>))

\* A forced correction right after a word: the last character typed is a
\* letter, so that no random correction applies, and the error is too young
\* to be due.
ForceDrainKeepsPendingBelowCapOrNoneWitness ==
  /\ pc = "main"
  /\ LastLogged("fix")
  /\ log[Len(log)].phase = "main"
  /\ log[Len(log)].err.constraint = "None"
  /\ Len(outstanding) + 1 = cfg.max_outstanding_errors
  /\ (is_ascii_lowercase(last_char) \/ is_ascii_uppercase(last_char))
  /\ Len(editor.buf) < log[Len(log)].err.fix_after_chars

----------------------------------------------------------------------------
(* Where a phrase substitution is corrected.                                *)

SentenceOrParagraphEnd == {".", "!", "?", "\n"}

\* This step corrects an error.
Corrects == Len(log') = Len(log) + 1 /\ log'[Len(log')].ev = "fix"

CorrectsPhrase == Corrects /\ IsPhraseError(log'[Len(log')].err)

\* C29: a step of the main pass that corrects a phrase substitution comes
\* directly after a token whose last typed character ends a sentence or a
\* paragraph, whichever trigger applies; every other correction of a phrase
\* substitution is one of the review.
PhraseCorrectedAtBoundaryOnly ==
  [][CorrectsPhrase =>
       \/ /\ log'[Len(log')].phase = "main"
          /\ pc = "fix"
          /\ last_char \in SentenceOrParagraphEnd
          /\ log'[Len(log')].err = MostRecent
       \/ /\ log'[Len(log')].phase = "review"
          /\ pc = "review"]_vars

\* A phrase substitution corrected by force in the main pass, directly after
\* a token ending in a full stop, too young to be due.
PhraseCorrectedAtBoundaryOnlyWitness ==
  /\ pc = "main"
  /\ LastLogged("fix")
  /\ log[Len(log)].phase = "main"
  /\ log[Len(log)].at = i
  /\ IsPhraseError(log[Len(log)].err)
  /\ last_char = "."
  /\ Len(outstanding) + 1 = cfg.max_outstanding_errors
  /\ Len(editor.buf) < log[Len(log)].err.fix_after_chars

\* A phrase substitution corrected in the review, the last character typed
\* being a letter.
PhraseCorrectedInReview ==
  /\ pc = "review"
  /\ LastLogged("fix")
  /\ log[Len(log)].phase = "review"
  /\ IsPhraseError(log[Len(log)].err)
  /\ last_char \notin SentenceOrParagraphEnd

----------------------------------------------------------------------------
(* Corrections late in the text.  An error is due 25 characters after it    *)
(* at the earliest, so the text here has a long word behind a short one.    *)

TextLate ==        \* "ab abcdefghijklmnopqrstuvwxyz."
  <<"a", "b", " ">> \o LowerLetters \o <<".">>

\* The progress after which the opportunistic corrections stop.
LateThresholds == {5, 88}

LateInit ==
  \/ TwinInit
  \/ /\ final_text = TextLate
     /\ entry = "generate_plan"
     /\ alternatives = <<>>
     /\ cfg \in {[c EXCEPT !.stop_corrections_after_progress = t] :
                   c \in {d \in Configs : /\ d.error_rate_per_word > 0
                                           /\ d.max_outstanding_errors = MaxCap
                                           /\ d.word_nav_profile = "Chrome"
                                           /\ ~d.no_revision},
                   t \in LateThresholds}
     /\ rng_hi = FALSE
     /\ AtRest
     /\ call = NoCall
     /\ ret = NoCall

LateSpec == LateInit /\ [][Next]_vars

\* The progress at the start of the current iteration has reached the
\* threshold: i / len >= stop_corrections_after_progress.
LateStage ==
  iter_i * 100 >= cfg.stop_corrections_after_progress * Len(final_text)

AsManyPendingAsAllowed == Len(outstanding) >= cfg.max_outstanding_errors

\* The most recent error is as old as its fix_after_chars.
MostRecentDue ==
  /\ outstanding /= <<>>
  /\ editor.cursor - (MostRecent.start + Len(MostRecent.wrong))
       >= MostRecent.fix_after_chars

\* C30: once the progress has reached stop_corrections_after_progress, a
\* correction of the main pass is a forced one, as many errors being pending
\* as allowed: neither the age of an error nor the random draw makes one.
LateCorrectionsForcedOnly ==
  [][(Corrects /\ log'[Len(log')].phase = "main" /\ LateStage)
       => AsManyPendingAsAllowed]_vars

\* Past the threshold, after the long word: the most recent error is due,
\* fewer are pending than allowed, and it was left pending.
LateCorrectionsForcedOnlyWitness ==
  /\ pc = "main"
  /\ i > iter_i
  /\ LateStage
  /\ MostRecentDue
  /\ ~AsManyPendingAsAllowed

\* Before the threshold the error that is due is corrected for its age: the
\* last character typed is a letter and fewer are pending than allowed.
CorrectedForAgeBeforeThreshold ==
  /\ pc = "main"
  /\ i > iter_i
  /\ ~LateStage
  /\ LastLogged("fix")
  /\ log[Len(log)].at = i
  /\ is_ascii_lowercase(last_char)
  /\ Len(outstanding) + 1 < cfg.max_outstanding_errors

----------------------------------------------------------------------------
(* navigate_left_to and navigate_right_to as a correction calls them: to a  *)
(* target at or before the cursor, and to one at or after it.               *)

TextTwoLines ==    \* "abcdefgh<LF>  ijklmnopqrst"
  <<"a", "b", "c", "d", "e", "f", "g", "h", "\n", " ", " ", "i", "j", "k", "l",
    "m", "n", "o", "p", "q", "r", "s", "t">>
TextHyphen ==      \* "abcd-efgh ijklmnopqrs"
  <<"a", "b", "c", "d", "-", "e", "f", "g", "h", " ", "i", "j", "k", "l", "m",
    "n", "o", "p", "q", "r", "s">>

WalkBuffers == {TextPlain, TextQuoted, TextTwoLines, TextHyphen}

WalkInit ==
  /\ PlannerUnused
  /\ call \in UNION {UNION {UNION {{[fn |-> fn, buf |-> b, cursor |-> c,
                                     target |-> t, profile |-> p, r |-> r,
                                     shift_down |-> sh] :
                                      t \in IF fn = "navigate_left_to" THEN 0..c
                                            ELSE c..Len(b),
                                      p \in {"Chrome", "Compatible"},
                                      r \in BOOLEAN, sh \in BOOLEAN} :
                                    fn \in {"navigate_left_to",
                                            "navigate_right_to"}} :
                             c \in 0..Len(b)} :
                       b \in WalkBuffers}
  /\ ret = NoCall

\* The builder and the editor a navigation starts from.
WalkStart ==
  [b |-> [BuilderNew EXCEPT !.shift_down = call.shift_down],
   e |-> [buf |-> call.buf, cursor |-> call.cursor],
   ok |-> TRUE]

NavigateLeft ==
  /\ call.fn = "navigate_left_to"
  /\ ret = NoCall
  /\ ret' = [fn |-> call.fn,
             st |-> navigate_left_to(WalkStart, call.target, call.profile, call.r)]
  /\ UNCHANGED <<call, plannerVars>>

NavigateRight ==
  /\ call.fn = "navigate_right_to"
  /\ ret = NoCall
  /\ ret' = [fn |-> call.fn,
             st |-> navigate_right_to(WalkStart, call.target, call.profile, call.r)]
  /\ UNCHANGED <<call, plannerVars>>

WalkNext == NavigateLeft \/ NavigateRight

WalkSpec == WalkInit /\ [][WalkNext]_vars

Walked == call.fn \in {"navigate_left_to", "navigate_right_to"} /\ ret /= NoCall

\* The emitted actions replayed on the editor: where the cursor is, whether
\* Ctrl is held, how many Ctrl+arrow and plain arrow presses were made, and
\* whether each press was as it must be.
WalkNew ==
  [cursor |-> call.cursor, ctrl |-> FALSE, jumps |-> 0, plain |-> 0, ok |-> TRUE]

walk_step(m, a) ==
  LET leftward == call.fn = "navigate_left_to"
      arrow == IF leftward THEN KEY_LEFT ELSE KEY_RIGHT
      to == IF m.ctrl
              THEN IF leftward THEN ctrl_left(call.buf, m.cursor, "planner")
                   ELSE ctrl_right(call.buf, m.cursor, "planner")
              ELSE IF leftward THEN Max(m.cursor - 1, 0)
                   ELSE Min(m.cursor + 1, Len(call.buf))
      moved == IF leftward THEN m.cursor - to ELSE to - m.cursor
      remaining == IF leftward THEN m.cursor - call.target
                   ELSE call.target - m.cursor
  IN  IF a.type /= "key" THEN m
      ELSE IF a.keycode = KEY_LEFTCTRL THEN [m EXCEPT !.ctrl = a.state = "pressed"]
      ELSE IF a.keycode = KEY_LEFTSHIFT \/ a.state = "released" THEN m
      ELSE IF a.keycode /= arrow THEN [m EXCEPT !.ok = FALSE]
      ELSE [cursor |-> to,
            ctrl |-> m.ctrl,
            jumps |-> m.jumps + (IF m.ctrl THEN 1 ELSE 0),
            plain |-> m.plain + (IF m.ctrl THEN 0 ELSE 1),
            ok |-> /\ m.ok
                   /\ moved <= remaining
                   /\ IF m.ctrl THEN moved >= 4 /\ remaining >= 12
                      ELSE moved = 1]

RECURSIVE walk(_, _, _, _)
walk(m, actions, lo, hi) ==
  IF ~m.ok \/ lo > hi THEN m
  ELSE IF lo = hi THEN walk_step(m, actions[lo])
  ELSE walk(walk(m, actions, lo, (lo + hi) \div 2), actions,
            (lo + hi) \div 2 + 1, hi)

WalkReplayed == walk(WalkNew, ret.st.b.actions, 1, Len(ret.st.b.actions))

\* C31: under both profiles every Ctrl+Left or Ctrl+Right of a navigation
\* moves the cursor by at least 4 characters, is made with at least 12
\* characters left to the target, and does not pass the target; every other
\* step is one plain arrow, Ctrl released, moving by one; and the navigation
\* ends with the cursor on its target.
CtrlJumpsLongAndWithinTarget ==
  Walked =>
    /\ WalkReplayed.ok
    /\ WalkReplayed.cursor = call.target
    /\ ret.st.e.cursor = call.target
    /\ ret.st.e.buf = call.buf

\* A leftward navigation of Ctrl+Left presses and plain Left presses that
\* ends on a target inside the buffer.
CtrlJumpsLongAndWithinTargetWitness ==
  /\ Walked
  /\ call.fn = "navigate_left_to"
  /\ call.target > 0
  /\ WalkReplayed.jumps >= 1
  /\ WalkReplayed.plain >= 1
  /\ WalkReplayed.cursor = call.target

----------------------------------------------------------------------------
(* The actions emitted so far scanned for the Modifiers snapshots: the      *)
(* Shift and Ctrl state the modifier key events imply, the depressed bits   *)
(* of the last Modifiers action, and whether a modifier key event still     *)
(* waits for its snapshot.                                                  *)

SnapshotNew ==
  [shift |-> FALSE, ctrl |-> FALSE, mods |-> 0, awaiting |-> FALSE,
   shifted |-> 0, with_ctrl |-> 0, ok |-> TRUE]

snapshot_step(m, a) ==
  LET held == (IF m.shift THEN shift_mask ELSE 0) + (IF m.ctrl THEN ctrl_mask ELSE 0)
      pressed == a.state = "pressed"
  IN  IF a.type = "wait" THEN m
      ELSE IF a.type = "modifiers"
        THEN [m EXCEPT !.mods = a.mods_depressed, !.awaiting = FALSE,
                       !.ok = m.ok /\ a.mods_depressed = held]
      ELSE IF IsKeyOf(a, {KEY_LEFTSHIFT, KEY_RIGHTSHIFT})
        THEN [m EXCEPT !.shift = pressed, !.awaiting = TRUE,
                       !.ok = m.ok /\ ~m.awaiting]
      ELSE IF IsKeyOf(a, {KEY_LEFTCTRL})
        THEN [m EXCEPT !.ctrl = pressed, !.awaiting = TRUE,
                       !.ok = m.ok /\ ~m.awaiting]
      ELSE [m EXCEPT !.shifted = @ + (IF pressed /\ m.shift THEN 1 ELSE 0),
                     !.with_ctrl = @ + (IF pressed /\ m.ctrl THEN 1 ELSE 0),
                     !.ok = m.ok /\ ~m.awaiting /\ m.mods = held]

RECURSIVE snapshot_scan(_, _, _, _)
snapshot_scan(m, actions, lo, hi) ==
  IF ~m.ok \/ lo > hi THEN m
  ELSE IF lo = hi THEN snapshot_step(m, actions[lo])
  ELSE snapshot_scan(snapshot_scan(m, actions, lo, (lo + hi) \div 2), actions,
                     (lo + hi) \div 2 + 1, hi)

Snapshots == snapshot_scan(SnapshotNew, builder.actions, 1, Len(builder.actions))

\* C32: at every key event of a character key, Backspace, Left or Right, the
\* depressed bits of the last Modifiers action equal the Shift and Ctrl
\* state the modifier key events before it imply; every modifier key event
\* is followed by its Modifiers snapshot before any other key event; and the
\* builder's shift_down and ctrl_down are that implied state.
SnapshotBeforeEveryKey ==
  /\ Snapshots.ok
  /\ Snapshots.shift = builder.shift_down
  /\ Snapshots.ctrl = builder.ctrl_down

\* A plan was returned in which a key was pressed with Shift held and
\* another with Ctrl held.
SnapshotBeforeEveryKeyWitness ==
  /\ pc = "done"
  /\ result = "ok"
  /\ Snapshots.ok
  /\ Snapshots.shifted >= 1
  /\ Snapshots.with_ctrl >= 1

----------------------------------------------------------------------------
(* The actions emitted so far replayed on an editor with the planner's      *)
(* word classes: each press of a character key inserts the character its    *)
(* (keycode, shift) pair decodes to.                                        *)

StrokeNew ==
  [buf |-> <<>>, cursor |-> 0, shift |-> FALSE, ctrl |-> FALSE,
   typed |-> 0, erased |-> 0, ok |-> TRUE]

stroke_step(m, a) ==
  LET e == [buf |-> m.buf, cursor |-> m.cursor]
      pair == <<a.keycode, m.shift>>
      with(ed) == [m EXCEPT !.buf = ed.buf, !.cursor = ed.cursor]
  IN  IF a.type /= "key" THEN m
      ELSE IF IsKeyOf(a, {KEY_LEFTSHIFT, KEY_RIGHTSHIFT})
        THEN [m EXCEPT !.shift = a.state = "pressed"]
      ELSE IF IsKeyOf(a, {KEY_LEFTCTRL}) THEN [m EXCEPT !.ctrl = a.state = "pressed"]
      ELSE IF a.state = "released" THEN m
      ELSE IF a.keycode = KEY_LEFT
        THEN IF m.ctrl THEN [m EXCEPT !.cursor = ctrl_left(m.buf, m.cursor, "planner")]
             ELSE with(move_left(e))
      ELSE IF a.keycode = KEY_RIGHT
        THEN IF m.ctrl THEN [m EXCEPT !.cursor = ctrl_right(m.buf, m.cursor, "planner")]
             ELSE with(move_right(e))
      ELSE IF a.keycode = KEY_BACKSPACE
        THEN [with(editor_backspace(e)) EXCEPT !.erased = @ + 1, !.ok = m.ok /\ ~m.ctrl]
      ELSE IF m.ctrl \/ pair \notin DOMAIN KeystrokeMap THEN [m EXCEPT !.ok = FALSE]
      ELSE [with(insert_char(e, KeystrokeMap[pair])) EXCEPT
              !.typed = @ + 1,
              !.ok = /\ m.ok
                     /\ char_to_keystroke(KeystrokeMap[pair]) =
                          [keycode |-> a.keycode, shift |-> m.shift]]

RECURSIVE stroke_scan(_, _, _, _)
stroke_scan(m, actions, lo, hi) ==
  IF ~m.ok \/ lo > hi THEN m
  ELSE IF lo = hi THEN stroke_step(m, actions[lo])
  ELSE stroke_scan(stroke_scan(m, actions, lo, (lo + hi) \div 2), actions,
                   (lo + hi) \div 2 + 1, hi)

\* Some phrase alternative holds a smart quote.
SmartQuoteInAlternative ==
  \E p \in DOMAIN alternatives : \E k \in DOMAIN alternatives[p] :
    HasSmartQuote(alternatives[p][k].alternative)

Strokes == stroke_scan(StrokeNew, builder.actions, 1, Len(builder.actions))

\* C33: every press of a character key and of Backspace is made with Ctrl
\* released, every press of a character key is made with Shift as the
\* keystroke of its character requires (the pair decodes to a character
\* whose keystroke it is and, where neither the text nor a phrase
\* alternative holds a smart quote, the replay rebuilds the planner's
\* editor), and
\* simulate_typed_text returns no error on a returned plan.
StrokesDecodeCtrlReleased ==
  /\ Strokes.ok
  /\ \/ HasSmartQuote(final_text)
     \/ SmartQuoteInAlternative
     \/ /\ Strokes.buf = editor.buf
        /\ Strokes.cursor = editor.cursor
  /\ pc = "simulated" => sim.ok

\* The simulator ran on a returned plan that types with and without Shift
\* and erases after a Ctrl+Left.
StrokesDecodeCtrlReleasedWitness ==
  /\ pc = "simulated"
  /\ sim.ok
  /\ Strokes.ok
  /\ Strokes.buf = editor.buf
  /\ Strokes.erased >= 1
  /\ Snapshots.shifted >= 1
  /\ Snapshots.with_ctrl >= 1
  /\ Strokes.typed > Snapshots.shifted

----------------------------------------------------------------------------
(* The end of a plan.  Two of the texts here end in a character typed with  *)
(* Shift, so that Left-Shift is held when the last character has been       *)
(* typed; the third has a word long enough for a Ctrl+Arrow.                *)

TextShout ==       \* "abcd OK!"
  <<"a", "b", "c", "d", " ", "O", "K", "!">>
TextCapital ==     \* "ab cD"
  <<"a", "b", " ", "c", "D">>

NeutralInit ==
  \/ TwinInit
  \/ /\ final_text \in {TextShout, TextCapital, TextPlain}
     /\ entry \in Entries
     /\ alternatives = <<>>
     /\ cfg \in Configs
     /\ rng_hi \in BOOLEAN
     /\ AtRest
     /\ call = NoCall
     /\ ret = NoCall

NeutralSpec == NeutralInit /\ [][Next]_vars

\* The states of the events of a key end on a release (or there are none).
EndsReleased(states) == states = <<>> \/ states[Len(states)] = "released"

\* The index of the last key event of the actions, 0 when there is none.
LastKeyEvent(actions) ==
  LET events == {k \in DOMAIN actions : actions[k].type = "key"}
  IN  IF events = {} THEN 0 ELSE CHOOSE k \in events : \A m \in events : m <= k

\* C34: a returned plan starts with a Modifiers action of all fields 0 and
\* ends with one, and every press of Left-Shift and of Left-Ctrl in it is
\* followed by a release of that key: the events of each of the two keys
\* alternate from a press and end on a release.
PlanNeutralAtBothEnds ==
  PlanReturned =>
    /\ builder.actions /= <<>>
    /\ builder.actions[1] = ModifiersAction(0)
    /\ builder.actions[Len(builder.actions)] = ModifiersAction(0)
    /\ Alternates(KeyStates(builder.actions, KEY_LEFTSHIFT))
    /\ EndsReleased(KeyStates(builder.actions, KEY_LEFTSHIFT))
    /\ Alternates(KeyStates(builder.actions, KEY_LEFTCTRL))
    /\ EndsReleased(KeyStates(builder.actions, KEY_LEFTCTRL))
    /\ ~builder.shift_down
    /\ ~builder.ctrl_down

\* A plan was returned whose last key event is the release of Left-Shift
\* held for its last character.
PlanNeutralAtBothEndsWitness ==
  /\ PlanReturned
  /\ LastKeyEvent(builder.actions) > 0
  /\ builder.actions[LastKeyEvent(builder.actions)] = KeyAction(KEY_LEFTSHIFT, "released")
  /\ builder.actions[Len(builder.actions)] = ModifiersAction(0)

----------------------------------------------------------------------------
(* C35: with no_revision set, the plan returned by any of the entry points, *)
(* generate_plan_with_phrase_alternatives among them, holds no Backspace,   *)
(* Left or Right key event and no wait of the review pause, and nothing was *)
(* injected for it: no phrase alternative, wrong word or double space.      *)
NoRevisionHonouredByEveryEntry ==
  (PlanReturned /\ cfg.no_revision)
    => /\ StraightThrough(builder.actions)
       /\ log = <<>>
       /\ injected = 0

----------------------------------------------------------------------------
(* The console trace of the plan built so far.                              *)

\* The tracer after actions[lo..hi], by halves; action indexes are 0-based.
\* The test of the cursor has the first half computed before the second.
RECURSIVE trace_run(_, _, _, _)
trace_run(t, actions, lo, hi) ==
  IF lo > hi THEN t
  ELSE IF lo = hi THEN observe_action(t, lo - 1, actions[lo])
  ELSE LET half == trace_run(t, actions, lo, (lo + hi) \div 2)
       IN  IF half.cursor >= 0 THEN trace_run(half, actions, (lo + hi) \div 2 + 1, hi)
           ELSE half

plan_console_trace(actions) == trace_events(trace_run(TraceNew, actions, 1, Len(actions)))

\* The Replace lines of the trace of the plan, in order.
PlanReplaceLines ==
  LET replaces == SelectSeq(plan_console_trace(builder.actions),
                            LAMBDA ev : ev.line.kind = "Replace")
  IN  [k \in DOMAIN replaces |-> replaces[k].line]

\* The corrections the planner made, in order: the line of each.
PlannerCorrections ==
  LET made == SelectSeq(log, LAMBDA e : e.ev \in {"immediate", "fix"})
  IN  [k \in DOMAIN made |->
         ReplaceLine(AsciiQuotes(made[k].err.wrong), AsciiQuotes(made[k].err.correct))]

\* C36: the trace of a returned plan holds one Replace event for each
\* correction the planner made (at once, between tokens or in the review),
\* in order, from the wrong text to the correct text as typed and nothing
\* else.
TraceAgreesWithPlanner ==
  PlanReturned => PlanReplaceLines = PlannerCorrections

----------------------------------------------------------------------------
(* The key press that a turn of the tracer observes, and whether it         *)
(* completes the correction that was open before it.                        *)

Observed == call'.actions[Len(call'.actions)]

PressObserved ==
  /\ Tracing
  /\ call'.actions /= call.actions
  /\ Observed.type = "key"
  /\ Observed.state = "pressed"
  /\ Observed.keycode \notin ModifierKeys

\* The character of the observed press, None when it has none.
ObservedChar ==
  IF ret.t.ctrl_down \/ <<Observed.keycode, ret.t.shift_down>> \notin DOMAIN KeystrokeMap
    THEN None
    ELSE KeystrokeMap[<<Observed.keycode, ret.t.shift_down>>]

EditKeyObserved == is_edit_key(Observed.keycode)
WordCharObserved == ObservedChar /= None /\ trace_is_word_char(ObservedChar)
NonWordCharObserved == ObservedChar /= None /\ ~trace_is_word_char(ObservedChar)

\* The correction open before the press is over after it: none is open, or
\* the press has opened another.
Completes ==
  /\ ret.t.correction.open
  /\ \/ ~ret'.t.correction.open
     \/ ret'.t.correction.start_action_index /= ret.t.correction.start_action_index

AtEndOfBuffer == ret.t.cursor = Len(ret.t.buf)

\* The open correction has moved the cursor off the end of the buffer.
HasLeftEnd == ret.t.correction.left_end

\* The open correction has deleted text and inserted text.
HasReplaced ==
  /\ ret.t.correction.deleted_backspace \o ret.t.correction.deleted_delete /= <<>>
  /\ ret.t.correction.inserted /= <<>>

\* C37 as stated: a key press completes the open correction exactly when
\* the cursor is at the end of the buffer and the key is an edit key or
\* types a non-word character.
CompletesAtEndBeforeEditOrNonWord ==
  [][(PressObserved /\ ret.t.correction.open)
       => (Completes <=> (AtEndOfBuffer /\ (EditKeyObserved \/ NonWordCharObserved)))]_vars

\* C37: a key press completes the open correction exactly when either the
\* correction has left the end of the buffer, the cursor is back at the end
\* and the key is an edit key or types a character, a word character
\* included, or the correction has not left the end, has deleted and
\* inserted text, and the key is an edit key or types a non-word character;
\* with the cursor off the end nothing completes it.
CompletesByLeftEnd ==
  [][(PressObserved /\ ret.t.correction.open)
       => /\ Completes <=>
               IF HasLeftEnd
                 THEN AtEndOfBuffer /\ (EditKeyObserved \/ ObservedChar /= None)
                 ELSE HasReplaced /\ (EditKeyObserved \/ NonWordCharObserved)
          /\ ~AtEndOfBuffer => ~Completes]_vars

\* The stream "a", Left, Right, "a": the correction opened by Left has left
\* the end, Right brings the cursor back, and the second "a", a word
\* character, completes it and starts a typing run.
CompletesByLeftEndWitness ==
  /\ Tracing
  /\ call.actions = <<KeyAction(char_to_keystroke("a").keycode, "pressed"),
                      KeyAction(KEY_LEFT, "pressed"), KeyAction(KEY_RIGHT, "pressed"),
                      KeyAction(char_to_keystroke("a").keycode, "pressed")>>
  /\ ~ret.t.correction.open
  /\ ret.t.typing_run = <<"a">>

----------------------------------------------------------------------------
(* llm.rs: the request for the phrase alternatives of one paragraph and its *)
(* retries.  What the service answers is drawn for each request.            *)

\* retry_delays, in seconds.
retry_delays == <<0, 10>>

Answer(items) == [ok |-> TRUE, items |-> items]
NoAnswer == [ok |-> FALSE, items |-> <<>>]

\* What request_phrase_alternatives_once_typed may return: an error, or
\* items that pass the validation, fail it, or pass it once truncated.
Responses ==
  {NoAnswer, Answer(<<>>), Answer(<<Alt(<<"a">>, <<"x">>)>>),
   Answer(<<Alt(<<"b">>, <<"x">>)>>),
   Answer(<<Alt(<<"a">>, <<"x">>), Alt(<<"b">>, <<"x">>)>>),
   Answer(<<Alt(<<"a">>, <<"x">>), Alt(<<"a">>, <<"x">>)>>)}

Truncated(items, n) == IF Len(items) > n THEN SubSeq(items, 1, n) ELSE items

\* request_phrase_alternatives_once on a response: [ok, items].
request_phrase_alternatives_once(paragraph, max_suggestions, response) ==
  LET items == Truncated(response.items, max_suggestions)
  IN  IF ~response.ok THEN NoAnswer
      ELSE IF validate_phrase_alternatives(paragraph, items) /= None THEN NoAnswer
      ELSE Answer(items)

RetryInit ==
  /\ PlannerUnused
  /\ call \in {[fn |-> "request_phrase_alternatives_with_retry", paragraph |-> p,
                 max_suggestions |-> n] :
                 p \in {<<"a", " ", "b">>, <<"a", "b">>, <<"b">>}, n \in 1..2}
  /\ ret = [fn |-> "pending", attempt |-> 0, requests |-> <<>>, slept |-> <<>>,
            items |-> <<>>]

\* A turn of the loop in which the request succeeds: Ok(items) is returned.
RequestSucceeds ==
  /\ call.fn = "request_phrase_alternatives_with_retry"
  /\ ret.fn = "pending"
  /\ \E response \in Responses :
       LET once == request_phrase_alternatives_once(call.paragraph,
                                                    call.max_suggestions, response)
       IN  /\ once.ok
           /\ ret' = [ret EXCEPT !.fn = "Ok", !.items = once.items,
                                 !.requests = Append(@, [response |-> response,
                                                         slept |-> ret.slept])]
  /\ UNCHANGED <<call, plannerVars>>

\* A turn of the loop in which the request fails: the error is returned, or
\* the delay of this attempt is slept and the loop goes on.
RequestFails ==
  /\ call.fn = "request_phrase_alternatives_with_retry"
  /\ ret.fn = "pending"
  /\ \E response \in Responses :
       LET once == request_phrase_alternatives_once(call.paragraph,
                                                    call.max_suggestions, response)
           made == Append(ret.requests, [response |-> response, slept |-> ret.slept])
           delay == retry_delays[ret.attempt + 1]
       IN  /\ ~once.ok
           /\ ret' = IF ret.attempt >= Len(retry_delays)
                       THEN [ret EXCEPT !.fn = "Err", !.requests = made]
                       ELSE [ret EXCEPT !.attempt = @ + 1, !.requests = made,
                                        !.slept = IF delay > 0 THEN Append(@, delay)
                                                  ELSE @]
  /\ UNCHANGED <<call, plannerVars>>

RetryNext == RequestSucceeds \/ RequestFails

RetrySpec == RetryInit /\ [][RetryNext]_vars

Retrying == call.fn = "request_phrase_alternatives_with_retry"

\* C38: the request of a paragraph is made at most twice: the second
\* request is made after one sleep of 10 seconds, the failure of the second
\* is returned as the error, and what a successful request returns has
\* passed validate_phrase_alternatives.
RetriedOnceAfterTenSeconds ==
  Retrying =>
    /\ Len(ret.requests) <= 2
    /\ Len(ret.requests) = 2 => ret.requests[2].slept = <<10>>
    /\ (ret.fn = "pending" /\ ret.requests /= <<>>) => Len(ret.requests) = 1
    /\ ret.fn = "Ok" =>
         validate_phrase_alternatives(call.paragraph, ret.items) = None

----------------------------------------------------------------------------
(* llm.rs: rephrase_paragraphs.  The requests in flight complete in any     *)
(* order, each with the alternatives of its paragraph or with an error.     *)

MAX_ACTIVE_REQUESTS == 10

\* The most paragraphs of a call, and the values with_max_concurrency is
\* called with.
MaxParagraphs == 11
Requested == {0, 1, 2, 3, MAX_ACTIVE_REQUESTS, MAX_ACTIVE_REQUESTS + 1}

\* max_concurrency.clamp(1, MAX_ACTIVE_REQUESTS) without the clamp.
with_max_concurrency_unclamped(max_concurrency) == max_concurrency

\* The client's max_concurrency after with_max_concurrency.
with_max_concurrency(max_concurrency) ==
  IF max_concurrency < 1 THEN 1
  ELSE IF max_concurrency > MAX_ACTIVE_REQUESTS THEN MAX_ACTIVE_REQUESTS
  ELSE max_concurrency

\* self.max_concurrency.min(MAX_ACTIVE_REQUESTS).max(1)
max_in_flight(max_concurrency) == Max(Min(max_concurrency, MAX_ACTIVE_REQUESTS), 1)

\* Option<Vec<PhraseAlternative>>: the alternatives are known by the
\* paragraph they were asked for.
NoItems == [some |-> FALSE, of |-> 0]
ItemsOf(idx) == [some |-> TRUE, of |-> idx]

RephraseInit ==
  /\ PlannerUnused
  /\ call \in {[fn |-> "rephrase_paragraphs", paragraphs |-> n,
                 max_concurrency |-> with_max_concurrency(c)] :
                 n \in 0..MaxParagraphs, c \in Requested}
  /\ ret = [fn |-> "called", in_flight |-> {}, next_index |-> 0, started |-> <<>>,
            results |-> [idx \in 0..(call.paragraphs - 1) |-> NoItems]]

\* The end of the call once nothing is in flight: the results, or the error
\* of a missing one.
collected(r) ==
  IF r.in_flight /= {} THEN r
  ELSE IF \E idx \in DOMAIN r.results : ~r.results[idx].some
    THEN [r EXCEPT !.fn = "Err"]
  ELSE [r EXCEPT !.fn = "Ok"]

\* Up to the first await: the first requests are pushed.
RephraseStart ==
  /\ call.fn = "rephrase_paragraphs"
  /\ ret.fn = "called"
  /\ LET initial == Min(max_in_flight(call.max_concurrency), call.paragraphs)
     IN  ret' = collected([ret EXCEPT !.fn = "awaiting",
                                      !.in_flight = 0..(initial - 1),
                                      !.next_index = initial,
                                      !.started = [k \in 1..initial |-> k - 1]])
  /\ UNCHANGED <<call, plannerVars>>

\* A request in flight completes with the alternatives of its paragraph:
\* they are stored and the next paragraph, if any, is requested.
RequestCompletes ==
  /\ call.fn = "rephrase_paragraphs"
  /\ ret.fn = "awaiting"
  /\ \E idx \in ret.in_flight :
       LET stored == [ret EXCEPT !.results[idx] = ItemsOf(idx),
                                 !.in_flight = @ \ {idx}]
       IN  ret' = IF ret.next_index < call.paragraphs
                    THEN [stored EXCEPT !.in_flight = @ \cup {ret.next_index},
                                        !.started = Append(@, ret.next_index),
                                        !.next_index = @ + 1]
                    ELSE collected(stored)
  /\ UNCHANGED <<call, plannerVars>>

\* A request in flight completes with an error: the call returns it and
\* drops the requests in flight.
RequestErrs ==
  /\ call.fn = "rephrase_paragraphs"
  /\ ret.fn = "awaiting"
  /\ \E idx \in ret.in_flight :
       ret' = [ret EXCEPT !.fn = "Err", !.in_flight = {}]
  /\ UNCHANGED <<call, plannerVars>>

RephraseNext == RephraseStart \/ RequestCompletes \/ RequestErrs

RephraseSpec == RephraseInit /\ [][RephraseNext]_vars

Rephrasing == call.fn = "rephrase_paragraphs"

\* How often the paragraph was requested.
TimesStarted(idx) == Cardinality({k \in DOMAIN ret.started : ret.started[k] = idx})

\* C39, the states: no more than min(max_concurrency, 10) requests are in
\* flight, max_concurrency being within 1..10; no paragraph is requested
\* twice; and when the call returns Ok every paragraph was requested once
\* and the result at each index is that of the paragraph of that index.
InFlightWithinLimit ==
  Rephrasing =>
    /\ call.max_concurrency \in 1..MAX_ACTIVE_REQUESTS
    /\ Cardinality(ret.in_flight) <= Min(call.max_concurrency, MAX_ACTIVE_REQUESTS)
    /\ \A idx \in 0..(call.paragraphs - 1) :
         /\ TimesStarted(idx) <= 1
         /\ ret.results[idx].some => ret.results[idx] = ItemsOf(idx)
         /\ ret.fn = "Ok" => (TimesStarted(idx) = 1 /\ ret.results[idx] = ItemsOf(idx))

\* C39, the steps: after the first requests a request is started only in a
\* step in which one in flight completes, and one at a time.
StartedOnCompletion ==
  (Rephrasing /\ ret.fn = "awaiting" /\ ret'.in_flight \ ret.in_flight /= {})
    => /\ Cardinality(ret'.in_flight \ ret.in_flight) = 1
       /\ Cardinality(ret.in_flight \ ret'.in_flight) = 1

\* C39: rephrase_paragraphs keeps the requests in flight within the limit,
\* starts a further request only when one in flight completes, requests
\* every paragraph once, and stores each result at the index of its
\* paragraph, whatever the order in which the requests complete.
BoundedInFlightEachOnce == []InFlightWithinLimit /\ [][StartedOnCompletion]_vars

\* A call with more paragraphs than the limit of 10 returned Ok after the
\* last paragraph was requested with ten requests in flight before it.
BoundedInFlightEachOnceWitness ==
  /\ Rephrasing
  /\ ret.fn = "Ok"
  /\ call.paragraphs > MAX_ACTIVE_REQUESTS
  /\ call.max_concurrency = MAX_ACTIVE_REQUESTS
  /\ Len(ret.started) = call.paragraphs

----------------------------------------------------------------------------
(* playback/backends: a plan played on the Wayland backend and on the X11   *)
(* backend, from the first action on.  Ctrl+C sets the stop flag at any     *)
(* time; a send or a flush may fail.                                        *)

KEY_LEFTALT == 56
\* Linux evdev keycodes; the two constants are not in keyboard.rs.
KEY_RIGHTCTRL == 97
KEY_RIGHTALT == 100

COMMON_MODIFIER_KEYCODES ==
  <<KEY_LEFTSHIFT, KEY_RIGHTSHIFT, KEY_LEFTCTRL, KEY_RIGHTCTRL, KEY_LEFTALT,
    KEY_RIGHTALT>>

\* The keycodes in the loop of x11.rs reset_common_modifiers_best_effort.
X11_RESET_KEYCODES ==
  <<KEY_LEFTSHIFT, KEY_RIGHTSHIFT, KEY_LEFTCTRL, KEY_RIGHTCTRL, KEY_LEFTALT>>

Releases(keycodes) == [k \in DOMAIN keycodes |-> KeyAction(keycodes[k], "released")]

\* wayland.rs reset_modifiers_best_effort: what it sends.
reset_modifiers_best_effort == <<ModifiersAction(0)>> \o Releases(COMMON_MODIFIER_KEYCODES)

\* x11.rs reset_common_modifiers_best_effort: what it sends.
reset_common_modifiers_best_effort == Releases(X11_RESET_KEYCODES)

\* The plans played: "A" and "a".
PlayedPlans ==
  {<<ModifiersAction(0), WaitAction(250),
     KeyAction(KEY_LEFTSHIFT, "pressed"), ModifiersAction(shift_mask),
     KeyAction(char_to_keystroke("a").keycode, "pressed"), WaitAction(18),
     KeyAction(char_to_keystroke("a").keycode, "released"),
     KeyAction(KEY_LEFTSHIFT, "released"), ModifiersAction(0)>>,
   <<ModifiersAction(0), WaitAction(250),
     KeyAction(char_to_keystroke("a").keycode, "pressed"), WaitAction(18),
     KeyAction(char_to_keystroke("a").keycode, "released"), ModifiersAction(0)>>}

\* At the loop over the actions: on X11 the modifiers have been reset.
PlaybackInit ==
  /\ PlannerUnused
  /\ call \in {[fn |-> fn, actions |-> plan] :
                 fn \in {"play_plan_wayland", "play_plan_x11"}, plan \in PlayedPlans}
  /\ ret = [fn |-> "playing", action_index |-> 0, stop |-> FALSE,
            sent |-> IF call.fn = "play_plan_x11"
                       THEN reset_common_modifiers_best_effort ELSE <<>>,
            at_end |-> <<>>]

\* The Ctrl+C handler.
CtrlC ==
  /\ ret.fn = "playing"
  /\ ~ret.stop
  /\ ret' = [ret EXCEPT !.stop = TRUE]
  /\ UNCHANGED <<call, plannerVars>>

\* The return of an error or of Ok: at_end is what was sent after the last
\* action played.
Ended(r, outcome, reset) ==
  [r EXCEPT !.fn = outcome, !.sent = @ \o reset, !.at_end = reset]

\* A turn of the loop of play_plan_wayland, or its end.
PlayWayland ==
  /\ call.fn = "play_plan_wayland"
  /\ ret.fn = "playing"
  /\ \E flushed \in BOOLEAN :
       LET a == call.actions[ret.action_index + 1]
           next == [ret EXCEPT !.action_index = @ + 1]
       IN  ret' =
             IF ret.stop THEN Ended(ret, "Err", reset_modifiers_best_effort)
             ELSE IF ret.action_index >= Len(call.actions) THEN Ended(ret, "Ok", <<>>)
             ELSE IF a.type = "wait" THEN next
             ELSE IF flushed THEN [next EXCEPT !.sent = Append(@, a)]
             ELSE Ended([next EXCEPT !.sent = Append(@, a)], "Err",
                            reset_modifiers_best_effort)
  /\ UNCHANGED <<call, plannerVars>>

\* A turn of the loop of play_plan_x11, or its end.
PlayX11 ==
  /\ call.fn = "play_plan_x11"
  /\ ret.fn = "playing"
  /\ \E sent \in BOOLEAN, flushed \in BOOLEAN :
       LET a == call.actions[ret.action_index + 1]
           next == [ret EXCEPT !.action_index = @ + 1]
       IN  ret' =
             IF ret.stop THEN Ended(ret, "Err", reset_common_modifiers_best_effort)
             ELSE IF ret.action_index >= Len(call.actions)
               THEN Ended(ret, IF flushed THEN "Ok" ELSE "Err", <<>>)
             ELSE IF a.type /= "key" THEN next
             ELSE IF ~sent THEN Ended(next, "Err", <<>>)
             ELSE IF ~flushed THEN Ended([next EXCEPT !.sent = Append(@, a)], "Err", <<>>)
             ELSE [next EXCEPT !.sent = Append(@, a)]
  /\ UNCHANGED <<call, plannerVars>>

PlaybackNext == CtrlC \/ PlayWayland \/ PlayX11

PlaybackSpec == PlaybackInit /\ [][PlaybackNext]_vars

\* The playback returned an error: it was stopped, or a send or a flush
\* failed.
EndedEarly ==
  /\ call.fn \in {"play_plan_wayland", "play_plan_x11"}
  /\ ret.fn = "Err"

\* C40: when the playback ends early, on either backend, a release of every
\* keycode of COMMON_MODIFIER_KEYCODES is sent before the error is returned.
ModifiersReleasedOnEarlyEnd ==
  EndedEarly =>
    \A k \in DOMAIN COMMON_MODIFIER_KEYCODES :
      \E n \in DOMAIN ret.at_end :
        ret.at_end[n] = KeyAction(COMMON_MODIFIER_KEYCODES[k], "released")
====
